---- MODULE Spec2Model ----
(***************************************************************************)
(* Contract resolution, document-type normalization and schema-shape       *)
(* conversion of the DocuLens backend                                      *)
(* (app/services/contract_manager.py, app/utils/string_utils.py,           *)
(* app/services/database_manager.py).                                      *)
(*                                                                         *)
(* Python values are tagged records [tag, v]:                              *)
(*   str  : v is the sequence of its characters                            *)
(*   none : None                                                           *)
(*   int  : v is the number                                                *)
(*   list : v is the sequence of its items                                 *)
(*   dict : v is the sequence of <<key, value>> entries in insertion       *)
(*          order, keys pairwise different                                 *)
(* A call ends in [kind |-> "return", val] or [kind |-> "raise", val].     *)
(***************************************************************************)
EXTENDS Integers, Sequences, FiniteSets, TLC

VARIABLES
    pc,              \* position of the call under study
    document_type,   \* argument of normalize_document_type / get_document_contract
    other_type,      \* a second document-type string, normalized alongside
    user_contracts,  \* ContractManager.user_contracts, the registry
    contract_list,   \* argument of _convert_contract_list_to_dict
    result,          \* outcome of the call
    contract_data,   \* argument of validate_contract
    store,           \* the rows of the user_contracts table, in store order
    store_reads,     \* number of select queries run on the user_contracts table
    loader,          \* the load_contracts call in progress
    reader,          \* the get_document_contract call in progress
    call,            \* the operation last run on the manager, with its inputs
    documents,       \* the rows of the documents table
    temp_file,       \* the temporary file of the process_document call
    process,         \* the process_document call in progress
    calls,           \* the collaborators the process_document call has called
    users,           \* the rows of the users table
    organizations    \* the rows of the organizations table

vars == <<pc, document_type, other_type, user_contracts, contract_list, result,
          contract_data, store, store_reads, loader, reader, call,
          documents, temp_file, process, calls, users, organizations>>

\* the document processor, its temporary file and the tables it writes
serviceVars == <<documents, temp_file, process, calls, users, organizations>>

\* the state of the manager, its store and the calls running on it
managerVars == <<store, store_reads, loader, reader, call, serviceVars>>

----------------------------------------------------------------------------
(* Python values *)

PyStr(chars) == [tag |-> "str", v |-> chars]
PyNone == [tag |-> "none", v |-> <<>>]
PyInt(n) == [tag |-> "int", v |-> n]
PyList(items) == [tag |-> "list", v |-> items]
PyDict(entries) == [tag |-> "dict", v |-> entries]

EmptyDict == PyDict(<<>>)
EmptyStr == PyStr(<<>>)

Return(value) == [kind |-> "return", val |-> value]
Raise(name) == [kind |-> "raise", val |-> [tag |-> "exc", v |-> name]]
NoResult == [kind |-> "none", val |-> PyNone]

\* bool(x): None, 0, "", [] and {} are falsy
Truthy(x) ==
    CASE x.tag = "none" -> FALSE
      [] x.tag = "int" -> x.v # 0
      [] OTHER -> Len(x.v) > 0

\* str, None and int can be dictionary keys; list and dict are unhashable
Hashable(x) == x.tag \in {"str", "none", "int"}

IsInstanceDict(x) == x.tag = "dict"
IsInstanceList(x) == x.tag = "list"

\* k in d
DictHas(d, k) == \E i \in 1..Len(d.v) : d.v[i][1] = k

DictIndex(d, k) == CHOOSE i \in 1..Len(d.v) : d.v[i][1] = k

\* d[k], for a key that is present
DictGet(d, k) == d.v[DictIndex(d, k)][2]

\* d.get(k, default)
DictGetDefault(d, k, default) == IF DictHas(d, k) THEN DictGet(d, k) ELSE default

\* an assignment that deletes a present key and appends it anew
DictSetMovingToEnd(d, k, value) ==
    PyDict(Append(SelectSeq(d.v, LAMBDA entry : entry[1] # k), <<k, value>>))

\* d[k] = value: a present key keeps its position, a new key is appended
DictSet(d, k, value) ==
    IF DictHas(d, k)
    THEN PyDict([d.v EXCEPT ![DictIndex(d, k)] = <<k, value>>])
    ELSE PyDict(Append(d.v, <<k, value>>))

\* the keys of d in iteration order
DictKeys(d) == [i \in 1..Len(d.v) |-> d.v[i][1]]

----------------------------------------------------------------------------
(* str methods *)

UpperChars == <<"A", "B", "C", "D", "E", "F", "G", "H", "I", "J", "K", "L", "M",
                "N", "O", "P", "Q", "R", "S", "T", "U", "V", "W", "X", "Y", "Z">>
LowerChars == <<"a", "b", "c", "d", "e", "f", "g", "h", "i", "j", "k", "l", "m",
                "n", "o", "p", "q", "r", "s", "t", "u", "v", "w", "x", "y", "z">>

LowerChar(c) ==
    IF \E i \in 1..Len(UpperChars) : UpperChars[i] = c
    THEN LowerChars[CHOOSE i \in 1..Len(UpperChars) : UpperChars[i] = c]
    ELSE c

\* s.lower()
Lower(s) == [i \in 1..Len(s) |-> LowerChar(s[i])]

\* sub in s
Contains(s, sub) ==
    \E i \in 1..(Len(s) - Len(sub) + 1) : SubSeq(s, i, i + Len(sub) - 1) = sub

\* s.replace(old, new): every non-overlapping occurrence, left to right
RECURSIVE Replace(_, _, _)
Replace(s, old, new) ==
    IF Len(s) < Len(old) THEN s
    ELSE IF SubSeq(s, 1, Len(old)) = old
         THEN new \o Replace(SubSeq(s, Len(old) + 1, Len(s)), old, new)
         ELSE <<Head(s)>> \o Replace(Tail(s), old, new)

\* s.replace(old, new, 1): the first occurrence only
RECURSIVE ReplaceFirst(_, _, _)
ReplaceFirst(s, old, new) ==
    IF Len(s) < Len(old) THEN s
    ELSE IF SubSeq(s, 1, Len(old)) = old
         THEN new \o SubSeq(s, Len(old) + 1, Len(s))
         ELSE <<Head(s)>> \o ReplaceFirst(Tail(s), old, new)

Employment == <<"e", "m", "p", "l", "o", "y", "m", "e", "n", "t">>
Employement == <<"e", "m", "p", "l", "o", "y", "e", "m", "e", "n", "t">>

----------------------------------------------------------------------------
(* app/utils/string_utils.py *)

\* a normalization that forgets the hyphen
LowerKeepHyphens(s) ==
    Replace(Replace(Lower(s), <<" ">>, <<>>), <<"_">>, <<>>)

\* document_type.lower().replace(" ", "").replace("_", "").replace("-", "")
LowerNoSeparators(s) ==
    Replace(Replace(Replace(Lower(s), <<" ">>, <<>>), <<"_">>, <<>>), <<"-">>, <<>>)

\* a correction that stops after the first misspelling
HandleFirstMisspelling(normalized) ==
    IF Contains(normalized, Employment)
    THEN ReplaceFirst(normalized, Employement, Employment)
    ELSE normalized

\* if "employment" in normalized: normalized.replace("employement", "employment")
HandleMisspellings(normalized) ==
    IF Contains(normalized, Employment)
    THEN Replace(normalized, Employement, Employment)
    ELSE normalized

normalize_document_type(dt) ==
    IF ~Truthy(dt) THEN Return(EmptyStr)
    ELSE IF dt.tag # "str" THEN Raise("AttributeError")
    ELSE Return(PyStr(HandleMisspellings(LowerNoSeparators(dt.v))))

----------------------------------------------------------------------------
(* ContractManager._convert_contract_list_to_dict *)

StrName == PyStr(<<"n", "a", "m", "e">>)
StrType == PyStr(<<"t", "y", "p", "e">>)
StrDescription == PyStr(<<"d", "e", "s", "c", "r", "i", "p", "t", "i", "o", "n">>)
StrProperties == PyStr(<<"p", "r", "o", "p", "e", "r", "t", "i", "e", "s">>)
StrRequired == PyStr(<<"r", "e", "q", "u", "i", "r", "e", "d">>)
StrObject == PyStr(<<"o", "b", "j", "e", "c", "t">>)
StrString == PyStr(<<"s", "t", "r", "i", "n", "g">>)
ExtractThe == <<"E", "x", "t", "r", "a", "c", "t", " ", "t", "h", "e", " ">>

Digits == <<"0", "1", "2", "3", "4", "5", "6", "7", "8", "9">>

\* the text an f-string puts in place of {x}
Format(x) ==
    CASE x.tag = "str" -> x.v
      [] x.tag = "none" -> <<"N", "o", "n", "e">>
      [] x.tag = "int" -> <<Digits[x.v + 1]>>

\* a descriptor whose type default is lost: field.get('type')
DescriptorNoDefault(field) ==
    PyDict(<< <<StrType, DictGetDefault(field, StrType, PyNone)>>,
              <<StrDescription,
                DictGetDefault(field, StrDescription,
                               PyStr(ExtractThe \o Format(DictGet(field, StrName))))>> >>)

\* {"type": field_type, "description": field_desc}
Descriptor(field) ==
    PyDict(<< <<StrType, DictGetDefault(field, StrType, StrString)>>,
              <<StrDescription,
                DictGetDefault(field, StrDescription,
                               PyStr(ExtractThe \o Format(DictGet(field, StrName))))>> >>)

\* isinstance(field, dict) and 'name' in field
CarriesName(field) == IsInstanceDict(field) /\ DictHas(field, StrName)

\* a loop that indexes field['name'] without looking at the entry first
RECURSIVE ConvertFieldsUnguarded(_, _)
ConvertFieldsUnguarded(fields, properties) ==
    IF fields = <<>> THEN Return(properties)
    ELSE LET field == Head(fields) IN
         IF ~IsInstanceDict(field) THEN Raise("TypeError")
         ELSE IF ~DictHas(field, StrName) THEN Raise("KeyError")
         ELSE ConvertFieldsUnguarded(Tail(fields),
                                     DictSet(properties, DictGet(field, StrName),
                                             Descriptor(field)))

\* the for loop over contract_list, filling contract_dict["properties"]
RECURSIVE ConvertFields(_, _)
ConvertFields(fields, properties) ==
    IF fields = <<>> THEN Return(properties)
    ELSE LET field == Head(fields) IN
         IF CarriesName(field)
         THEN IF ~Hashable(DictGet(field, StrName)) THEN Raise("TypeError")
              ELSE ConvertFields(Tail(fields),
                                 DictSet(properties, DictGet(field, StrName),
                                         Descriptor(field)))
         ELSE ConvertFields(Tail(fields), properties)

\* a converter built on the unguarded loop
convert_unguarded(list, doc_type) ==
    IF ~IsInstanceList(list) THEN Raise("TypeError")
    ELSE LET props == ConvertFieldsUnguarded(list.v, EmptyDict) IN
         IF props.kind = "raise" THEN props
         ELSE Return(PyDict(<< <<StrType, StrObject>>, <<StrProperties, props.val>> >>))

convert_contract_list_to_dict(list, doc_type) ==
    IF ~IsInstanceList(list) THEN Raise("TypeError")
    ELSE LET props == ConvertFields(list.v, EmptyDict) IN
         IF props.kind = "raise" THEN props
         ELSE Return(PyDict(<< <<StrType, StrObject>>, <<StrProperties, props.val>> >>))

----------------------------------------------------------------------------
(* ContractManager.get_document_contract *)

\* "Ensure contract is properly formatted": a list-shaped entry is converted
FormatContract(contract, doc_type) ==
    IF IsInstanceList(contract)
    THEN convert_contract_list_to_dict(contract, doc_type)
    ELSE Return(contract)

\* the position at which a for loop over the registry returns
FirstIndex(indices) == CHOOSE i \in indices : \A j \in indices : i <= j

\* document_type.lower() == contract_type.lower()
SameLower(doc_type, contract_type) == Lower(doc_type.v) = Lower(contract_type.v)

\* a comparison that lower-cases the registry key and normalizes no further
SameNormalizedKeyLowered(normalized_doc_type, contract_type) ==
    PyStr(Lower(contract_type.v)) = normalized_doc_type

\* normalized_doc_type == normalize_document_type(contract_type)
SameNormalized(normalized_doc_type, contract_type) ==
    normalize_document_type(contract_type) = Return(normalized_doc_type)

\* a normalized pass that ends in return None
NormalizedMatchOrNone(registry, doc_type) ==
    LET normalized == normalize_document_type(doc_type) IN
    IF normalized.kind = "raise" THEN normalized
    ELSE LET hits == {i \in 1..Len(registry.v) :
                         SameNormalized(normalized.val, registry.v[i][1])} IN
         IF hits # {}
         THEN FormatContract(registry.v[FirstIndex(hits)][2],
                             registry.v[FirstIndex(hits)][1])
         ELSE Return(PyNone)

\* lines 319-334: the normalized pass and the final return {}
NormalizedMatch(registry, doc_type) ==
    LET normalized == normalize_document_type(doc_type) IN
    IF normalized.kind = "raise" THEN normalized
    ELSE LET hits == {i \in 1..Len(registry.v) :
                         SameNormalized(normalized.val, registry.v[i][1])} IN
         IF hits # {}
         THEN FormatContract(registry.v[FirstIndex(hits)][2],
                             registry.v[FirstIndex(hits)][1])
         ELSE Return(EmptyDict)

\* one pass that takes the first key matching either way
MergedMatch(registry, doc_type) ==
    IF registry.v # <<>> /\ doc_type.tag # "str" THEN Raise("AttributeError")
    ELSE LET normalized == normalize_document_type(doc_type)
             hits == {i \in 1..Len(registry.v) :
                         \/ SameLower(doc_type, registry.v[i][1])
                         \/ SameNormalized(normalized.val, registry.v[i][1])} IN
         IF hits # {}
         THEN FormatContract(registry.v[FirstIndex(hits)][2],
                             registry.v[FirstIndex(hits)][1])
         ELSE Return(EmptyDict)

\* a lookup that goes from the exact test straight to the normalized pass
CaseInsensitiveMatchSkipped(registry, doc_type) == NormalizedMatch(registry, doc_type)

\* lines 310-317: the case-insensitive pass
CaseInsensitiveMatch(registry, doc_type) ==
    IF registry.v # <<>> /\ doc_type.tag # "str" THEN Raise("AttributeError")
    ELSE LET hits == {i \in 1..Len(registry.v) :
                         SameLower(doc_type, registry.v[i][1])} IN
         IF hits # {}
         THEN FormatContract(registry.v[FirstIndex(hits)][2],
                             registry.v[FirstIndex(hits)][1])
         ELSE NormalizedMatch(registry, doc_type)

\* a lookup without the exact-match step of lines 303-308
get_document_contract_inexact(registry, doc_type) ==
    IF ~Hashable(doc_type) THEN Raise("TypeError")
    ELSE CaseInsensitiveMatch(registry, doc_type)

\* the body of the try block, lines 302-334
get_document_contract_try(registry, doc_type) ==
    IF ~Hashable(doc_type) THEN Raise("TypeError")
    ELSE IF DictHas(registry, doc_type)
         THEN FormatContract(DictGet(registry, doc_type), doc_type)
         ELSE CaseInsensitiveMatch(registry, doc_type)

\* a lookup whose except clause lets the error through
get_document_contract_reraise(registry, doc_type) ==
    get_document_contract_try(registry, doc_type)

\* try: ... except Exception: return {}
get_document_contract(registry, doc_type) ==
    LET outcome == get_document_contract_try(registry, doc_type) IN
    IF outcome.kind = "raise" THEN Return(EmptyDict) ELSE outcome

----------------------------------------------------------------------------
(* Inputs *)

MaxChunks == 4       \* fragments per document-type string
MaxPairChunks == 2   \* fragments per string when two strings are compared
MaxContracts == 3    \* entries of the registry
MaxFields == 3       \* entries of a list-shaped contract

\* every concatenation of at most n of the given fragments
RECURSIVE Concats(_, _)
Concats(fragments, n) ==
    IF n = 0 THEN {<<>>}
    ELSE Concats(fragments, n - 1)
         \cup {s \o f : s \in Concats(fragments, n - 1), f \in fragments}

Fragments ==
    { Employment, Employement,
      <<"E", "m", "p", "l", "o", "y">>, <<"e">>, <<"M", "E", "N", "T">>,
      <<" ">>, <<"_">>, <<"-">>, <<"x">> }

PairFragments ==
    { <<"E", "m", "p", "l", "o", "y", "m", "e", "n", "t">>,
      <<"E", "M", "P", "L", "O", "Y", "-", "M", "E", "N", "T">>,
      <<"e", "m", "p", "l", "o", "y", " ", "e", "_", "m", "e", "n", "t">>,
      Employement, <<"_">>, <<" ", "x">> }

StrAB == PyStr(<<"a", "b">>)
StrUpperAB == PyStr(<<"A", "B">>)
StrSpacedAB == PyStr(<<"a", " ", "b">>)
StrUnderAB == PyStr(<<"A", "_", "b">>)
StrHyphenAB == PyStr(<<"a", "-", "B">>)
StrMixedAB == PyStr(<<"A", "b">>)
StrZZ == PyStr(<<"z", "z">>)
StrEmploymentLetter ==
    PyStr(<<"E", "m", "p", "l", "o", "y", "m", "e", "n", "t", " ",
            "L", "e", "t", "t", "e", "r">>)
StrEmployementLetter ==
    PyStr(<<"E", "m", "p", "l", "o", "y", "e", "m", "e", "n", "t", " ",
            "L", "e", "t", "t", "e", "r">>)

StrAmount == PyStr(<<"a", "m", "o", "u", "n", "t">>)
StrDate == PyStr(<<"d", "a", "t", "e">>)
StrNumber == PyStr(<<"n", "u", "m", "b", "e", "r">>)
StrWhen == PyStr(<<"w", "h", "e", "n">>)

\* entries of a list-shaped contract: records with and without a name, a type
\* or a description, and rows that are no records
FieldEntries ==
    { PyDict(<< <<StrName, StrAmount>>, <<StrType, StrNumber>> >>),
      PyDict(<< <<StrName, StrDate>> >>),
      PyDict(<< <<StrName, StrAmount>>, <<StrDescription, StrWhen>> >>),
      PyDict(<< <<StrName, StrDate>>, <<StrType, PyNone>>, <<StrDescription, StrWhen>> >>),
      PyDict(<< <<StrType, StrString>> >>),
      PyDict(<< <<StrName, PyNone>> >>),
      StrDate,
      PyNone }

RECURSIVE SeqsUpTo(_, _)
SeqsUpTo(items, n) ==
    IF n = 0 THEN {<<>>}
    ELSE SeqsUpTo(items, n - 1)
         \cup {Append(q, x) : q \in SeqsUpTo(items, n - 1), x \in items}

ContractLists == {PyList(q) : q \in SeqsUpTo(FieldEntries, MaxFields)}

\* what the store holds in a row's fields column
ObjectSchema ==
    PyDict(<< <<StrType, StrObject>>,
              <<StrProperties,
                PyDict(<< <<StrAmount, PyDict(<< <<StrType, StrNumber>> >>)>> >>)>> >>)
ListSchema == PyList(<< PyDict(<< <<StrName, StrDate>> >>) >>)
StoredFields == {ObjectSchema, ListSchema, EmptyDict}

RegistryKeys == {StrAB, StrUpperAB, StrSpacedAB, StrUnderAB, StrEmploymentLetter}

\* the mappings get_user_contracts can build: pairwise different keys
RECURSIVE RegistryEntries(_)
RegistryEntries(n) ==
    IF n = 0 THEN {<<>>}
    ELSE RegistryEntries(n - 1)
         \cup {Append(r, <<k, f>>) :
                 r \in {q \in RegistryEntries(n - 1) : Len(q) = n - 1},
                 k \in RegistryKeys, f \in StoredFields}

Registries ==
    {PyDict(r) : r \in {q \in RegistryEntries(MaxContracts) :
                          \A i, j \in 1..Len(q) : q[i][1] = q[j][1] => i = j}}

DocumentTypes ==
    RegistryKeys \cup
    { StrHyphenAB, StrMixedAB, StrZZ, StrEmployementLetter, EmptyStr,
      PyNone, PyInt(7), PyInt(0), PyList(<<>>) }

\* no load_contracts and no get_document_contract call is in progress
LoaderIdle == [pc |-> "idle", response |-> <<>>, contracts |-> EmptyDict, next |-> 0]
ReaderIdle == [pc |-> "idle", key |-> PyNone, held |-> {}]
NoCall == [op |-> "none"]

\* no process_document call is in progress
ProcessIdle ==
    [pc |-> "idle", content |-> "unread", document_type |-> PyNone, confidence |-> PyNone, parsed |-> PyNone,
     extracted |-> PyNone, document_id |-> 0, saved |-> "untried", unlink |-> "untried",
     outcome |-> NoResult]

\* the document processor and the user tables are not part of the calls under study
ServicesUnused ==
    /\ documents = <<>>
    /\ temp_file = "absent"
    /\ process = ProcessIdle
    /\ calls = {}
    /\ users = <<>>
    /\ organizations = <<>>

\* the function-level specifications leave the manager and its store aside
ManagerUnused ==
    /\ ServicesUnused
    /\ store = <<>>
    /\ store_reads = 0
    /\ loader = LoaderIdle
    /\ reader = ReaderIdle
    /\ call = NoCall

----------------------------------------------------------------------------
(* normalize_document_type applied to one string *)

InitNormalize ==
    /\ pc = "normalize"
    /\ document_type \in {PyStr(s) : s \in Concats(Fragments, MaxChunks)}
    /\ other_type = EmptyStr
    /\ user_contracts = EmptyDict
    /\ contract_list = PyList(<<>>)
    /\ result = NoResult
    /\ contract_data = PyNone
    /\ ManagerUnused

NormalizeDocumentType ==
    /\ pc = "normalize"
    /\ result' = normalize_document_type(document_type)
    /\ pc' = "normalized"
    /\ UNCHANGED <<document_type, other_type, user_contracts, contract_list,
                   contract_data>>
    /\ UNCHANGED managerVars

NextNormalize == NormalizeDocumentType

SpecNormalize == InitNormalize /\ [][NextNormalize]_vars

(* normalize_document_type applied to two strings *)

InitNormalizePair ==
    /\ pc = "normalize"
    /\ document_type \in {PyStr(s) : s \in Concats(PairFragments, MaxPairChunks)}
    /\ other_type \in {PyStr(s) : s \in Concats(PairFragments, MaxPairChunks)}
    /\ user_contracts = EmptyDict
    /\ contract_list = PyList(<<>>)
    /\ result = NoResult
    /\ contract_data = PyNone
    /\ ManagerUnused

SpecNormalizePair == InitNormalizePair /\ [][NextNormalize]_vars

----------------------------------------------------------------------------
(* get_document_contract on a loaded registry *)

InitResolve ==
    /\ pc = "resolve"
    /\ document_type \in DocumentTypes
    /\ other_type = EmptyStr
    /\ user_contracts \in Registries
    /\ contract_list = PyList(<<>>)
    /\ result = NoResult
    /\ contract_data = PyNone
    /\ ManagerUnused

GetDocumentContract ==
    /\ pc = "resolve"
    /\ result' = get_document_contract(user_contracts, document_type)
    /\ pc' = "resolved"
    /\ UNCHANGED <<document_type, other_type, user_contracts, contract_list,
                   contract_data>>
    /\ UNCHANGED managerVars

NextResolve == GetDocumentContract

SpecResolve == InitResolve /\ [][NextResolve]_vars

----------------------------------------------------------------------------
(* _convert_contract_list_to_dict on a list-shaped contract *)

InitConvert ==
    /\ pc = "convert"
    /\ document_type \in {StrAB, PyNone}
    /\ other_type = EmptyStr
    /\ user_contracts = EmptyDict
    /\ contract_list \in ContractLists
    /\ result = NoResult
    /\ contract_data = PyNone
    /\ ManagerUnused

ConvertContractList ==
    /\ pc = "convert"
    /\ result' = convert_contract_list_to_dict(contract_list, document_type)
    /\ pc' = "converted"
    /\ UNCHANGED <<document_type, other_type, user_contracts, contract_list,
                   contract_data>>
    /\ UNCHANGED managerVars

NextConvert == ConvertContractList

SpecConvert == InitConvert /\ [][NextConvert]_vars

----------------------------------------------------------------------------
(* Properties of get_document_contract (SpecResolve) *)

Resolved == pc = "resolved"

\* what a lookup that stops at registry position i returns
Stored(i) == FormatContract(user_contracts.v[i][2], user_contracts.v[i][1])

\* lower-casing, then deleting spaces, underscores and hyphens
Squash(s) == SelectSeq(Lower(s), LAMBDA c : c \notin {" ", "_", "-"})

\* the positions whose key equals document_type, in each of the three ways
ExactHits == {i \in 1..Len(user_contracts.v) : user_contracts.v[i][1] = document_type}
LowerHits ==
    {i \in 1..Len(user_contracts.v) :
        Lower(user_contracts.v[i][1].v) = Lower(document_type.v)}
NormalizedHits ==
    {i \in 1..Len(user_contracts.v) :
        normalize_document_type(user_contracts.v[i][1])
            = normalize_document_type(document_type)}
SquashHits ==
    {i \in 1..Len(user_contracts.v) :
        Squash(user_contracts.v[i][1].v) = Squash(document_type.v)}

\* C1: a document type that is a key of the registry resolves to the schema
\* stored under exactly that key, whatever other keys equal it
\* case-insensitively or after normalization.
C1_ExactKeyWins ==
    (Resolved /\ document_type.tag = "str" /\ ExactHits # {})
        => result = Stored(FirstIndex(ExactHits))

\* C1 witness: an earlier key equals the document type case-insensitively and
\* holds another schema, and the exact key's schema was returned.
C1_Witness ==
    /\ Resolved /\ document_type.tag = "str" /\ ExactHits # {}
    /\ \E i \in LowerHits :
          /\ i < FirstIndex(ExactHits)
          /\ Stored(i) # Stored(FirstIndex(ExactHits))
    /\ result = Stored(FirstIndex(ExactHits))

\* C2: without an exact key, the first key equal to the document type after
\* lower-casing both wins, even behind a key that matches only after
\* normalization.
C2_CaseInsensitiveBeforeNormalized ==
    (Resolved /\ document_type.tag = "str" /\ ExactHits = {} /\ LowerHits # {})
        => result = Stored(FirstIndex(LowerHits))

\* C2 witness: a key matching only after normalization precedes the first
\* case-insensitive match and holds another schema.
C2_Witness ==
    /\ Resolved /\ document_type.tag = "str" /\ ExactHits = {} /\ LowerHits # {}
    /\ \E i \in NormalizedHits \ LowerHits :
          /\ i < FirstIndex(LowerHits)
          /\ Stored(i) # Stored(FirstIndex(LowerHits))
    /\ result = Stored(FirstIndex(LowerHits))

\* C3: without an exact or case-insensitive match, the first key whose normal
\* form equals the document type's wins; a key that differs only in letter
\* case, spaces, underscores and hyphens is such a key.
C3_NormalizedFirstWins ==
    (/\ Resolved /\ document_type.tag = "str"
     /\ ExactHits = {} /\ LowerHits = {}
     /\ (NormalizedHits # {} \/ SquashHits # {}))
        => /\ NormalizedHits # {}
           /\ result = Stored(FirstIndex(NormalizedHits))

\* C3 witness: two keys differ from the document type in separators and case,
\* hold different schemas, and the first one's schema was returned.
C3_Witness ==
    /\ Resolved /\ document_type.tag = "str"
    /\ ExactHits = {} /\ LowerHits = {}
    /\ Cardinality(SquashHits) >= 2
    /\ \E i \in NormalizedHits :
          i > FirstIndex(NormalizedHits) /\ Stored(i) # Stored(FirstIndex(NormalizedHits))
    /\ result = Stored(FirstIndex(NormalizedHits))

\* C4: a string that matches no key exactly, case-insensitively or after
\* normalization resolves to the empty mapping, and the call does not raise.
C4_NotFoundIsEmptyMapping ==
    (/\ Resolved /\ document_type.tag = "str"
     /\ ExactHits = {} /\ LowerHits = {} /\ NormalizedHits = {})
        => result = Return(EmptyDict)

\* C4 witness: a registry with entries, none of which matches.
C4_Witness ==
    /\ Resolved /\ document_type.tag = "str"
    /\ user_contracts.v # <<>>
    /\ ExactHits = {} /\ LowerHits = {} /\ NormalizedHits = {}
    /\ result = Return(EmptyDict)

C8_MisspellingCorrected ==
    (Resolved /\ document_type.tag = "str")
        => /\ Contains(Squash(document_type.v), Employement)
                => normalize_document_type(document_type)
                     = Return(PyStr(Replace(Squash(document_type.v),
                                            Employement, Employment)))
           /\ (document_type = StrEmployementLetter
               /\ DictHas(user_contracts, StrEmploymentLetter))
                => result = FormatContract(DictGet(user_contracts, StrEmploymentLetter),
                                           StrEmploymentLetter)

----------------------------------------------------------------------------
(* Properties of normalize_document_type (SpecNormalize, SpecNormalizePair) *)

Normalized == pc = "normalized"

IsUpperChar(c) == \E i \in 1..Len(UpperChars) : UpperChars[i] = c

\* C6: normalizing a normal form changes nothing, also when the input holds
\* both "employment" and "employement" and the correction fires.
C6_NormalizeIdempotent ==
    Normalized => normalize_document_type(result.val) = result

\* C6 witness: the input holds both spellings and the correction changed it.
C6_Witness ==
    /\ Normalized
    /\ Contains(Squash(document_type.v), Employment)
    /\ Contains(Squash(document_type.v), Employement)
    /\ result.val.v # Squash(document_type.v)
    /\ normalize_document_type(result.val) = result

\* C7: a normal form holds no upper-case letter, space, underscore or hyphen,
\* and two strings that are equal after lower-casing and deleting spaces,
\* underscores and hyphens have the same normal form.
C7_SeparatorsAndCaseIgnored ==
    Normalized =>
        /\ \A i \in 1..Len(result.val.v) :
              ~IsUpperChar(result.val.v[i]) /\ result.val.v[i] \notin {" ", "_", "-"}
        /\ Squash(document_type.v) = Squash(other_type.v)
              => normalize_document_type(other_type) = result

\* C7 witness: two different spellings, one with a hyphen and upper-case
\* letters, that agree after squashing and got the same normal form.
C7_Witness ==
    /\ Normalized
    /\ document_type # other_type
    /\ Squash(document_type.v) = Squash(other_type.v)
    /\ \E i \in 1..Len(document_type.v) : document_type.v[i] = "-"
    /\ \E i \in 1..Len(document_type.v) : IsUpperChar(document_type.v[i])
    /\ \E i \in 1..Len(other_type.v) : other_type.v[i] \in {" ", "_"}
    /\ normalize_document_type(other_type) = result

----------------------------------------------------------------------------
(* Properties of _convert_contract_list_to_dict (SpecConvert) *)

Converted == pc = "converted"

\* entry i of the input is a record that carries a name
Named(i) ==
    /\ contract_list.v[i].tag = "dict"
    /\ \E e \in 1..Len(contract_list.v[i].v) : contract_list.v[i].v[e][1] = StrName

NameOf(i) == DictGet(contract_list.v[i], StrName)

\* properties[name of entry i] is the descriptor the rule gives for entry i
DescribedBy(properties, i) ==
    LET field == contract_list.v[i] IN
    /\ DictHas(properties, NameOf(i))
    /\ LET descriptor == DictGet(properties, NameOf(i)) IN
       /\ descriptor.tag = "dict"
       /\ Len(descriptor.v) = 2
       /\ DictHas(descriptor, StrType)
       /\ DictHas(descriptor, StrDescription)
       /\ DictGet(descriptor, StrType)
            = IF DictHas(field, StrType) THEN DictGet(field, StrType) ELSE StrString
       /\ DictGet(descriptor, StrDescription)
            = IF DictHas(field, StrDescription) THEN DictGet(field, StrDescription)
              ELSE PyStr(ExtractThe \o Format(NameOf(i)))

\* C9, as claimed: properties has, for each record that carries a name, the
\* descriptor built from that record (type or "string", description or
\* "Extract the <name>"), and the result has type "object".
C9_EveryNamedRecordDescribed ==
    Converted =>
        /\ result.kind = "return"
        /\ DictGetDefault(result.val, StrType, PyNone) = StrObject
        /\ DictHas(result.val, StrProperties)
        /\ \A i \in 1..Len(contract_list.v) :
              Named(i) => DescribedBy(DictGet(result.val, StrProperties), i)

\* C9, amended: the descriptor under a name is the one built from the last
\* record that carries that name; an earlier record with the same name is
\* overwritten.
C9_LastNamedRecordDescribed ==
    Converted =>
        /\ result.kind = "return"
        /\ DictGetDefault(result.val, StrType, PyNone) = StrObject
        /\ DictHas(result.val, StrProperties)
        /\ \A i \in 1..Len(contract_list.v) :
              (/\ Named(i)
               /\ \A j \in (i + 1)..Len(contract_list.v) :
                     Named(j) => NameOf(j) # NameOf(i))
                 => DescribedBy(DictGet(result.val, StrProperties), i)

\* C9 witness: a record without type and description follows a record of the
\* same name that has a type, and the later record's defaults are in the result.
C9_Witness ==
    /\ Converted
    /\ result.kind = "return"
    /\ \E i, j \in 1..Len(contract_list.v) :
          /\ i < j /\ Named(i) /\ Named(j) /\ NameOf(i) = NameOf(j)
          /\ DictHas(contract_list.v[i], StrType)
          /\ ~DictHas(contract_list.v[j], StrType)
          /\ ~DictHas(contract_list.v[j], StrDescription)
          /\ \A k \in (j + 1)..Len(contract_list.v) : ~Named(k)
          /\ DescribedBy(DictGet(result.val, StrProperties), j)
          /\ ~DescribedBy(DictGet(result.val, StrProperties), i)

FirstPosition(name) ==
    CHOOSE i \in 1..Len(contract_list.v) :
        /\ Named(i) /\ NameOf(i) = name
        /\ \A j \in 1..(i - 1) : ~(Named(j) /\ NameOf(j) = name)

\* C11: the conversion depends on the input list alone (not on the document
\* type handed in for logging), and the keys of properties stand in the order
\* in which their names first occur in the list.
C11_KeysInFirstOccurrenceOrder ==
    Converted =>
        /\ result.kind = "return"
        /\ result = convert_contract_list_to_dict(contract_list, StrAB)
        /\ result = convert_contract_list_to_dict(contract_list, PyNone)
        /\ LET keys == DictKeys(DictGet(result.val, StrProperties)) IN
           \A e, f \in 1..Len(keys) :
               e < f => FirstPosition(keys[e]) < FirstPosition(keys[f])

\* C11 witness: a name occurs, another name follows, and the first name occurs
\* again; the first name still comes first in properties.
C11_Witness ==
    /\ Converted
    /\ result.kind = "return"
    /\ \E i, j, k \in 1..Len(contract_list.v) :
          /\ i < j /\ j < k
          /\ Named(i) /\ Named(j) /\ Named(k)
          /\ NameOf(i) = NameOf(k) /\ NameOf(i) # NameOf(j)
          /\ DictKeys(DictGet(result.val, StrProperties)) = <<NameOf(i), NameOf(j)>>

----------------------------------------------------------------------------
(* ContractManager.validate_contract *)

PyBool(b) == [tag |-> "bool", v |-> b]
PyTuple(items) == [tag |-> "tuple", v |-> items]

\* the (is_valid, error_message) pair
Verdict(valid, message) == Return(PyTuple(<<PyBool(valid), PyStr(message)>>))

MsgEmpty == <<"C", "o", "n", "t", "r", "a", "c", "t", " ", "d", "a", "t", "a", " ",
       "i", "s", " ", "e", "m", "p", "t", "y">>
MsgNotDictOrList ==
    <<"C", "o", "n", "t", "r", "a", "c", "t", " ", "d", "a", "t", "a", " ",
       "m", "u", "s", "t", " ", "b", "e", " ", "a", " ", "d", "i", "c", "t",
       "i", "o", "n", "a", "r", "y", " ", "o", "r", " ", "a", " ", "l", "i",
       "s", "t", " ", "o", "f", " ", "f", "i", "e", "l", "d", " ", "d", "e",
       "f", "i", "n", "i", "t", "i", "o", "n", "s">>
MsgNoProperties ==
    <<"C", "o", "n", "t", "r", "a", "c", "t", " ", "m", "u", "s", "t", " ",
       "h", "a", "v", "e", " ", "a", " ", "'", "p", "r", "o", "p", "e", "r",
       "t", "i", "e", "s", "'", " ", "f", "i", "e", "l", "d", " ", "d", "e",
       "f", "i", "n", "i", "n", "g", " ", "t", "h", "e", " ", "d", "a", "t",
       "a", " ", "s", "t", "r", "u", "c", "t", "u", "r", "e">>
MsgPropertiesNotDict ==
    <<"C", "o", "n", "t", "r", "a", "c", "t", " ", "p", "r", "o", "p", "e",
       "r", "t", "i", "e", "s", " ", "m", "u", "s", "t", " ", "b", "e", " ",
       "a", " ", "d", "i", "c", "t", "i", "o", "n", "a", "r", "y">>
MsgFieldDefinitionFor == <<"F", "i", "e", "l", "d", " ", "d", "e", "f", "i", "n", "i", "t", "i",
       "o", "n", " ", "f", "o", "r", " ", "'">>
MsgMustBeADictionary == <<"'", " ", "m", "u", "s", "t", " ", "b", "e", " ", "a", " ", "d", "i",
       "c", "t", "i", "o", "n", "a", "r", "y">>
MsgField == <<"F", "i", "e", "l", "d", " ", "'">>
MsgMustHaveType ==
    <<"'", " ", "m", "u", "s", "t", " ", "h", "a", "v", "e", " ", "a", " ",
       "'", "t", "y", "p", "e", "'", " ", "p", "r", "o", "p", "e", "r", "t",
       "y">>
MsgErrorValidating ==
    <<"E", "r", "r", "o", "r", " ", "v", "a", "l", "i", "d", "a", "t", "i",
       "n", "g", " ", "c", "o", "n", "t", "r", "a", "c", "t", ":", " ">>
MsgUnhashable == <<"u", "n", "h", "a", "s", "h", "a", "b", "l", "e", " ", "t", "y", "p",
       "e", ":", " ", "'">>

\* the text of the TypeError an unhashable dictionary key raises
UnhashableText(x) ==
    MsgUnhashable
        \o (IF x.tag = "list" THEN <<"l", "i", "s", "t">> ELSE <<"d", "i", "c", "t">>)
        \o <<"'">>

\* str(e) for the exception the conversion of this list raises
ConversionErrorText(list) ==
    LET raising == {i \in 1..Len(list.v) :
                      CarriesName(list.v[i]) /\ ~Hashable(DictGet(list.v[i], StrName))}
    IN  UnhashableText(DictGet(list.v[CHOOSE i \in raising : \A j \in raising : i <= j],
                               StrName))

\* isinstance(field_def, dict) and "type" in field_def, lines 379-383
WellFormedField(field_def) == IsInstanceDict(field_def) /\ DictHas(field_def, StrType)

\* a loop that reports the last field it finds wrong
LastOffender(properties) ==
    LET bad == {i \in 1..Len(properties.v) : ~WellFormedField(properties.v[i][2])} IN
    IF bad = {} THEN 0 ELSE CHOOSE i \in bad : \A j \in bad : j <= i

\* the position at which the loop of lines 378-383 returns, 0 when it runs through
FirstOffender(properties) ==
    LET bad == {i \in 1..Len(properties.v) : ~WellFormedField(properties.v[i][2])} IN
    IF bad = {} THEN 0 ELSE CHOOSE i \in bad : \A j \in bad : i <= j

\* lines 372-385
ValidateProperties(properties) ==
    IF ~IsInstanceDict(properties) THEN Verdict(FALSE, MsgPropertiesNotDict)
    ELSE LET i == FirstOffender(properties) IN
         IF i = 0 THEN Verdict(TRUE, <<>>)
         ELSE IF ~IsInstanceDict(properties.v[i][2])
              THEN Verdict(FALSE, MsgFieldDefinitionFor \o Format(properties.v[i][1])
                                    \o MsgMustBeADictionary)
              ELSE Verdict(FALSE, MsgField \o Format(properties.v[i][1])
                                    \o MsgMustHaveType)

\* lines 364-385, a check that asks for properties whatever the hint
ValidateSchemaIgnoringHint(schema_data, doc_type) ==
    IF ~IsInstanceDict(schema_data) THEN Verdict(FALSE, MsgNotDictOrList)
    ELSE IF ~DictHas(schema_data, StrProperties)
         THEN Verdict(FALSE, MsgNoProperties)
         ELSE ValidateProperties(DictGet(schema_data, StrProperties))

\* lines 364-385: the checks on schema_data
ValidateSchema(schema_data, doc_type) ==
    IF ~IsInstanceDict(schema_data) THEN Verdict(FALSE, MsgNotDictOrList)
    ELSE IF ~DictHas(schema_data, StrProperties) /\ ~Truthy(doc_type)
         THEN Verdict(FALSE, MsgNoProperties)
         ELSE IF DictHas(schema_data, StrProperties)
              THEN ValidateProperties(DictGet(schema_data, StrProperties))
              ELSE Verdict(TRUE, <<>>)

\* a validation that converts a list before it looks for emptiness
validate_contract_converting_first(data, doc_type) ==
    LET converted == IF IsInstanceList(data)
                     THEN convert_contract_list_to_dict(data, doc_type)
                     ELSE Return(data) IN
    IF converted.kind = "raise" THEN converted
    ELSE IF ~Truthy(converted.val) THEN Verdict(FALSE, MsgEmpty)
    ELSE ValidateSchema(converted.val, doc_type)

\* a validation without the conversion of lines 361-362
validate_contract_unconverted(data, doc_type) ==
    IF ~Truthy(data) THEN Verdict(FALSE, MsgEmpty)
    ELSE ValidateSchema(data, doc_type)

\* the body of the try block, lines 354-385
validate_contract_try(data, doc_type) ==
    IF ~Truthy(data) THEN Verdict(FALSE, MsgEmpty)
    ELSE LET converted == IF IsInstanceList(data)
                          THEN convert_contract_list_to_dict(data, doc_type)
                          ELSE Return(data) IN
         IF converted.kind = "raise" THEN converted
         ELSE ValidateSchema(converted.val, doc_type)

\* try: ... except Exception as e: return False, f"Error validating contract: {str(e)}"
validate_contract(data, doc_type) ==
    LET outcome == validate_contract_try(data, doc_type) IN
    IF outcome.kind = "raise"
    THEN Verdict(FALSE, MsgErrorValidating \o ConversionErrorText(data))
    ELSE outcome

----------------------------------------------------------------------------
(* validate_contract on a contract payload *)

MaxProperties == 2   \* fields of a properties mapping

\* what a properties mapping holds under a field name
FieldDefinitions ==
    { PyDict(<< <<StrType, StrNumber>> >>),
      PyDict(<< <<StrType, PyNone>> >>),
      PyDict(<< <<StrDescription, StrWhen>> >>),
      StrString,
      PyNone }

FieldNames == {StrAmount, StrDate, StrWhen}

RECURSIVE PropertyEntries(_)
PropertyEntries(n) ==
    IF n = 0 THEN {<<>>}
    ELSE PropertyEntries(n - 1)
         \cup {Append(p, <<k, f>>) :
                 p \in {q \in PropertyEntries(n - 1) : Len(q) = n - 1},
                 k \in FieldNames, f \in FieldDefinitions}

PropertyMaps ==
    {PyDict(p) : p \in {q \in PropertyEntries(MaxProperties) :
                          \A i, j \in 1..Len(q) : q[i][1] = q[j][1] => i = j}}

ContractPayloads ==
    { PyNone, EmptyDict, PyList(<<>>), EmptyStr, PyInt(0), PyInt(7), StrZZ,
      PyDict(<< <<StrType, StrObject>> >>),
      PyDict(<< <<StrDescription, StrWhen>> >>),
      PyDict(<< <<StrProperties, PyNone>> >>),
      PyDict(<< <<StrProperties, PyList(<<>>)>> >>),
      PyDict(<< <<StrType, StrObject>>, <<StrProperties, StrString>> >>) }
    \cup {PyDict(<< <<StrProperties, p>> >>) : p \in PropertyMaps}
    \cup {PyDict(<< <<StrType, StrObject>>, <<StrProperties, p>> >>) : p \in PropertyMaps}
    \cup ContractLists

DocumentTypeHints == {PyNone, EmptyStr, StrAB}

InitValidate ==
    /\ pc = "validate"
    /\ document_type \in DocumentTypeHints
    /\ other_type = EmptyStr
    /\ user_contracts = EmptyDict
    /\ contract_list = PyList(<<>>)
    /\ result = NoResult
    /\ contract_data \in ContractPayloads
    /\ ManagerUnused

ValidateContract ==
    /\ pc = "validate"
    /\ result' = validate_contract(contract_data, document_type)
    /\ pc' = "validated"
    /\ UNCHANGED <<document_type, other_type, user_contracts, contract_list,
                   contract_data>>
    /\ UNCHANGED managerVars

NextValidate == ValidateContract

SpecValidate == InitValidate /\ [][NextValidate]_vars

----------------------------------------------------------------------------
(* Claims about validate_contract *)

Validated == pc = "validated" /\ result.kind = "return"
IsValid == result.val.v[1].v
ErrorMessage == result.val.v[2].v
Accepted == result = Return(PyTuple(<<PyBool(TRUE), EmptyStr>>))
PropertiesOf(data) == data.v[CHOOSE i \in 1..Len(data.v) : data.v[i][1] = StrProperties][2]
HasProperties(data) ==
    data.tag = "dict" /\ \E i \in 1..Len(data.v) : data.v[i][1] = StrProperties

\* C12: for an empty mapping, an empty list or None, with any hint, the answer
\* is (False, "Contract data is empty")
C12_EmptyDataRejected ==
    (pc = "validated" /\ contract_data \in {PyNone, EmptyDict, PyList(<<>>)})
        => result = Return(PyTuple(<<PyBool(FALSE), PyStr(MsgEmpty)>>))

C12_Witness ==
    /\ pc = "validated"
    /\ contract_data = PyList(<<>>)
    /\ document_type = StrAB
    /\ result = Return(PyTuple(<<PyBool(FALSE), PyStr(MsgEmpty)>>))

\* C13: a non-empty list whose records all carry a name and a type is answered
\* (True, ""), which a list can only get through its conversion to a schema
C13_NamedTypedListAccepted ==
    (/\ pc = "validated"
     /\ contract_data.tag = "list"
     /\ Len(contract_data.v) > 0
     /\ \A i \in 1..Len(contract_data.v) :
            /\ contract_data.v[i].tag = "dict"
            /\ \E j \in 1..Len(contract_data.v[i].v) : contract_data.v[i].v[j][1] = StrName
            /\ \E j \in 1..Len(contract_data.v[i].v) : contract_data.v[i].v[j][1] = StrType)
        => Accepted

C13_Witness ==
    /\ pc = "validated"
    /\ contract_data = PyList(<< PyDict(<< <<StrName, StrAmount>>, <<StrType, StrNumber>> >>),
                                 PyDict(<< <<StrName, StrDate>>, <<StrType, PyNone>>,
                                           <<StrDescription, StrWhen>> >>) >>)
    /\ document_type = PyNone
    /\ Accepted

\* C14: a non-empty mapping without a properties key is invalid when the hint
\* is None or empty and is answered (True, "") when the hint is a non-empty string
C14_HintAllowsMissingProperties ==
    (/\ pc = "validated"
     /\ contract_data.tag = "dict"
     /\ Len(contract_data.v) > 0
     /\ ~HasProperties(contract_data))
        => IF document_type.tag = "str" /\ Len(document_type.v) > 0
           THEN Accepted
           ELSE result = Return(PyTuple(<<PyBool(FALSE), PyStr(MsgNoProperties)>>))

C14_Witness ==
    /\ pc = "validated"
    /\ contract_data = PyDict(<< <<StrType, StrObject>> >>)
    /\ document_type = StrAB
    /\ Accepted

\* C15: with a properties key the answer is invalid when properties is not a
\* mapping; otherwise it is invalid exactly when some descriptor is not a
\* mapping holding a type key, the message then naming the first such field in
\* the order of the mapping; otherwise the answer is (True, "")
C15_FirstOffendingFieldNamed ==
    (pc = "validated" /\ HasProperties(contract_data))
        => LET properties == PropertiesOf(contract_data)
               Fine(i) == /\ properties.v[i][2].tag = "dict"
                          /\ \E j \in 1..Len(properties.v[i][2].v) :
                                 properties.v[i][2].v[j][1] = StrType
           IN  IF properties.tag # "dict"
               THEN result = Return(PyTuple(<<PyBool(FALSE), PyStr(MsgPropertiesNotDict)>>))
               ELSE IF \A i \in 1..Len(properties.v) : Fine(i)
                    THEN Accepted
                    ELSE \E i \in 1..Len(properties.v) :
                            /\ ~Fine(i)
                            /\ \A j \in 1..(i - 1) : Fine(j)
                            /\ result.kind = "return"
                            /\ IsValid = FALSE
                            /\ ErrorMessage \in
                                 { MsgFieldDefinitionFor \o properties.v[i][1].v
                                       \o MsgMustBeADictionary,
                                   MsgField \o properties.v[i][1].v \o MsgMustHaveType }

\* two offending fields: the message names the one that comes first
C15_Witness ==
    /\ pc = "validated"
    /\ contract_data = PyDict(<< <<StrProperties,
                                   PyDict(<< <<StrWhen, PyDict(<< <<StrDescription, StrWhen>> >>)>>,
                                             <<StrAmount, PyNone>> >>)>> >>)
    /\ ErrorMessage = MsgField \o StrWhen.v \o MsgMustHaveType

----------------------------------------------------------------------------
(* DatabaseManager.get_user_contracts and the user_contracts table *)

StrDocumentType == <<"d", "o", "c", "u", "m", "e", "n", "t", "_", "t", "y", "p", "e">>
StrFields == <<"f", "i", "e", "l", "d", "s">>

\* a row of the user_contracts table, as select('*') returns it
Row(doc_type, fields) == PyDict(<< <<StrDocumentType, doc_type>>, <<StrFields, fields>> >>)

\* contracts = {}; for contract in response.data: contracts[...] = contract['fields']
RECURSIVE BuildContracts(_, _)
BuildContracts(rows, contracts) ==
    IF rows = <<>> THEN contracts
    ELSE LET contract == Head(rows) IN
         BuildContracts(Tail(rows),
                        IF DictHas(contract, StrDocumentType) /\ DictHas(contract, StrFields)
                        THEN DictSet(contracts, DictGet(contract, StrDocumentType),
                                     DictGet(contract, StrFields))
                        ELSE contracts)

\* the outcome of query.select('*').execute(): the rows, or an exception
QueryData(rows) == [failed |-> FALSE, data |-> rows]
QueryFailed == [failed |-> TRUE, data |-> <<>>]
QueryOutcomes(rows) == {QueryData(rows), QueryFailed}

\* lines 180-201: {} for a failed query and for no rows, else the built mapping
get_user_contracts(response) ==
    IF response.failed THEN EmptyDict
    ELSE IF response.data = <<>> THEN EmptyDict
    ELSE BuildContracts(response.data, EmptyDict)

----------------------------------------------------------------------------
(* load_contracts running beside get_document_contract: every read and
   every write of self.user_contracts is a step of its own *)

MaxRows == 2    \* rows of the user_contracts table
MaxLoads == 1   \* load_contracts calls after construction

ReloadRows ==
    { Row(StrUpperAB, ObjectSchema),
      Row(StrUnderAB, ListSchema),
      Row(StrAB, EmptyDict) }

\* the table now, and the table when the manager was constructed: contracts
\* have been uploaded and deleted in between
ReloadStores == SeqsUpTo(ReloadRows, MaxRows)
EarlierStores == {rows \in ReloadStores : Len(rows) < MaxRows}

ReloadDocumentTypes == {StrAB, StrUpperAB, PyNone}

\* self.user_contracts[key] followed by the conversion of a list-shaped entry;
\* a key the mapping does not hold raises KeyError
LookupContract(registry, key) ==
    IF DictHas(registry, key)
    THEN FormatContract(DictGet(registry, key), key)
    ELSE Raise("KeyError")

\* the except clause of lines 336-338
OrEmptyDict(outcome) == IF outcome.kind = "raise" THEN Return(EmptyDict) ELSE outcome

InitReload ==
    /\ pc = "reload"
    /\ document_type \in ReloadDocumentTypes
    /\ other_type = EmptyStr
    /\ contract_list = PyList(<<>>)
    /\ contract_data = PyNone
    /\ result = NoResult
    /\ store \in ReloadStores
    /\ user_contracts \in {get_user_contracts(QueryData(rows)) : rows \in EarlierStores}
    /\ store_reads = 1
    /\ loader = LoaderIdle
    /\ reader = ReaderIdle
    /\ call = NoCall
    /\ ServicesUnused

\* a build that fills self.user_contracts itself
LoadBuildRowInPlace ==
    /\ loader.pc = "build"
    /\ LET contracts == BuildContracts(<<loader.response[loader.next]>>, loader.contracts) IN
       /\ loader' = [loader EXCEPT !.contracts = contracts,
                                  !.next = @ + 1,
                                  !.pc = IF loader.next = Len(loader.response)
                                         THEN "assign" ELSE "build"]
       /\ user_contracts' = contracts
    /\ UNCHANGED <<pc, document_type, other_type, contract_list, result,
                   contract_data, store, store_reads, reader, call, serviceVars>>

\* load_contracts is called; get_user_contracts runs its query (lines 181-189)
LoadQuery ==
    /\ loader.pc = "idle"
    /\ store_reads <= MaxLoads
    /\ \E response \in QueryOutcomes(store) :
          loader' = [pc |-> IF response.failed \/ response.data = <<>>
                            THEN "assign" ELSE "build",
                     response |-> response.data,
                     contracts |-> EmptyDict,
                     next |-> 1]
    /\ store_reads' = store_reads + 1
    /\ UNCHANGED <<pc, document_type, other_type, user_contracts, contract_list, result,
                   contract_data, store, reader, call, serviceVars>>

\* one turn of the loop of lines 192-194, on the local dictionary
LoadBuildRow ==
    /\ loader.pc = "build"
    /\ loader' = [loader EXCEPT
                    !.contracts = BuildContracts(<<loader.response[loader.next]>>, @),
                    !.next = @ + 1,
                    !.pc = IF loader.next = Len(loader.response) THEN "assign" ELSE "build"]
    /\ UNCHANGED <<pc, document_type, other_type, user_contracts, contract_list, result,
                   contract_data, store, store_reads, reader, call, serviceVars>>

\* self.user_contracts = <the returned mapping> (line 137)
LoadAssign ==
    /\ loader.pc = "assign"
    /\ user_contracts' = loader.contracts
    /\ loader' = LoaderIdle
    /\ reader' = IF reader.pc \in {"idle", "done"} THEN reader
                 ELSE [reader EXCEPT !.held = @ \cup {loader.contracts}]
    /\ UNCHANGED <<pc, document_type, other_type, contract_list, result,
                   contract_data, store, store_reads, call, serviceVars>>

\* get_document_contract(document_type) is called
ReadCall ==
    /\ reader.pc = "idle"
    /\ reader' = [pc |-> "exact_test", key |-> PyNone, held |-> {user_contracts}]
    /\ UNCHANGED <<pc, document_type, other_type, user_contracts, contract_list, result,
                   contract_data, store, store_reads, loader, call, serviceVars>>

\* if document_type in self.user_contracts (line 303)
ReadExactTest ==
    /\ reader.pc = "exact_test"
    /\ IF ~Hashable(document_type)
       THEN /\ result' = Return(EmptyDict)
            /\ reader' = [reader EXCEPT !.pc = "done"]
       ELSE /\ result' = result
            /\ reader' = IF DictHas(user_contracts, document_type)
                         THEN [reader EXCEPT !.pc = "exact_lookup", !.key = document_type]
                         ELSE [reader EXCEPT !.pc = "case_scan"]
    /\ UNCHANGED <<pc, document_type, other_type, user_contracts, contract_list,
                   contract_data, store, store_reads, loader, call, serviceVars>>

\* contract = self.user_contracts[document_type] ... return contract (lines 304-308)
ReadExactLookup ==
    /\ reader.pc = "exact_lookup"
    /\ result' = OrEmptyDict(LookupContract(user_contracts, reader.key))
    /\ reader' = [reader EXCEPT !.pc = "done"]
    /\ UNCHANGED <<pc, document_type, other_type, user_contracts, contract_list,
                   contract_data, store, store_reads, loader, call, serviceVars>>

\* for contract_type in self.user_contracts: if document_type.lower() == ... (311-312)
ReadCaseScan ==
    /\ reader.pc = "case_scan"
    /\ IF user_contracts.v # <<>> /\ document_type.tag # "str"
       THEN /\ result' = Return(EmptyDict)
            /\ reader' = [reader EXCEPT !.pc = "done"]
       ELSE LET hits == {i \in 1..Len(user_contracts.v) :
                           SameLower(document_type, user_contracts.v[i][1])} IN
            /\ result' = result
            /\ reader' = IF hits # {}
                         THEN [reader EXCEPT !.pc = "case_lookup",
                                             !.key = user_contracts.v[FirstIndex(hits)][1]]
                         ELSE [reader EXCEPT !.pc = "normalized_scan"]
    /\ UNCHANGED <<pc, document_type, other_type, user_contracts, contract_list,
                   contract_data, store, store_reads, loader, call, serviceVars>>

\* contract = self.user_contracts[contract_type] ... return contract (lines 313-317)
ReadCaseLookup ==
    /\ reader.pc = "case_lookup"
    /\ result' = OrEmptyDict(LookupContract(user_contracts, reader.key))
    /\ reader' = [reader EXCEPT !.pc = "done"]
    /\ UNCHANGED <<pc, document_type, other_type, user_contracts, contract_list,
                   contract_data, store, store_reads, loader, call, serviceVars>>

\* normalize_document_type(document_type) and the second loop (lines 320-325),
\* return {} when the loop ends (line 334)
ReadNormalizedScan ==
    /\ reader.pc = "normalized_scan"
    /\ LET normalized == normalize_document_type(document_type) IN
       IF normalized.kind = "raise"
       THEN /\ result' = Return(EmptyDict)
            /\ reader' = [reader EXCEPT !.pc = "done"]
       ELSE LET hits == {i \in 1..Len(user_contracts.v) :
                           SameNormalized(normalized.val, user_contracts.v[i][1])} IN
            IF hits # {}
            THEN /\ result' = result
                 /\ reader' = [reader EXCEPT !.pc = "normalized_lookup",
                                             !.key = user_contracts.v[FirstIndex(hits)][1]]
            ELSE /\ result' = Return(EmptyDict)
                 /\ reader' = [reader EXCEPT !.pc = "done"]
    /\ UNCHANGED <<pc, document_type, other_type, user_contracts, contract_list,
                   contract_data, store, store_reads, loader, call, serviceVars>>

\* contract = self.user_contracts[contract_type] ... return contract (lines 326-330)
ReadNormalizedLookup ==
    /\ reader.pc = "normalized_lookup"
    /\ result' = OrEmptyDict(LookupContract(user_contracts, reader.key))
    /\ reader' = [reader EXCEPT !.pc = "done"]
    /\ UNCHANGED <<pc, document_type, other_type, user_contracts, contract_list,
                   contract_data, store, store_reads, loader, call, serviceVars>>

NextReload ==
    \/ LoadQuery
    \/ LoadBuildRow
    \/ LoadAssign
    \/ ReadCall
    \/ ReadExactTest
    \/ ReadExactLookup
    \/ ReadCaseScan
    \/ ReadCaseLookup
    \/ ReadNormalizedScan
    \/ ReadNormalizedLookup

SpecReload == InitReload /\ [][NextReload]_vars

----------------------------------------------------------------------------
(* Claims about the registry during a reload *)

RowType(row) == row.v[1][2]
RowFields(row) == row.v[2][2]

\* C16: the registry changes only in the assignment that ends a load, and its
\* new value is the whole mapping of the rows read: every document type of
\* the response is a key, each key once, each holding the fields of the last
\* row of its type; while the rows are being read the registry keeps its value
C16_RegistryReplacedWhole ==
    [][user_contracts' # user_contracts =>
         /\ loader.pc = "assign"
         /\ \A i \in 1..Len(loader.response) :
               \E j \in 1..Len(user_contracts'.v) :
                   user_contracts'.v[j][1] = RowType(loader.response[i])
         /\ \A j \in 1..Len(user_contracts'.v) :
               \E i \in 1..Len(loader.response) :
                   /\ RowType(loader.response[i]) = user_contracts'.v[j][1]
                   /\ RowFields(loader.response[i]) = user_contracts'.v[j][2]
                   /\ \A k \in (i + 1)..Len(loader.response) :
                          RowType(loader.response[k]) # user_contracts'.v[j][1]
         /\ \A j, k \in 1..Len(user_contracts'.v) :
               user_contracts'.v[j][1] = user_contracts'.v[k][1] => j = k]_vars

\* a load has read the first of two rows; the registry still holds the
\* mapping of the earlier load
C16_Witness ==
    /\ loader.pc = "build"
    /\ Len(loader.response) = 2
    /\ loader.next = 2
    /\ Len(loader.contracts.v) = 1
    /\ Len(user_contracts.v) = 1
    /\ user_contracts # loader.contracts

\* C17: a finished get_document_contract call returns what resolving its
\* argument against one of the mappings the registry held during the call gives
C17_ResultFromOneSnapshot ==
    reader.pc = "done"
        => \E registry \in reader.held :
               result = get_document_contract(registry, document_type)

----------------------------------------------------------------------------
(* ContractManager.classify_document and ContractManager.extract_data *)

PyFloat(tenths) == [tag |-> "float", v |-> tenths]

StrUnknown == PyStr(<<"u", "n", "k", "n", "o", "w", "n">>)
StrError == PyStr(<<"e", "r", "r", "o", "r">>)
MsgUnknownDocument ==
    <<"u", "n", "k", "n", "o", "w", "n", " ", "d", "o", "c", "u", "m", "e",
       "n", "t", ",", " ", "p", "l", "e", "a", "s", "e", " ", "c", "r", "e",
       "a", "t", "e", " ", "y", "o", "u", "r", " ", "c", "o", "n", "t", "r",
       "a", "c", "t", " ", "f", "i", "r", "s", "t">>
MsgEmptyContent == <<"E", "m", "p", "t", "y", " ", "d", "o", "c", "u", "m", "e", "n", "t", " ",
       "c", "o", "n", "t", "e", "n", "t">>
MsgFailedToExtract ==
    <<"F", "a", "i", "l", "e", "d", " ", "t", "o", " ", "e", "x", "t", "r",
       "a", "c", "t", " ", "d", "a", "t", "a", " ", "f", "r", "o", "m", " ",
       "d", "o", "c", "u", "m", "e", "n", "t">>
MsgErrorDuringExtraction ==
    <<"E", "r", "r", "o", "r", " ", "d", "u", "r", "i", "n", "g", " ", "d",
       "a", "t", "a", " ", "e", "x", "t", "r", "a", "c", "t", "i", "o", "n",
       ":", " ">>
MsgJoinTypeError ==
    <<"s", "e", "q", "u", "e", "n", "c", "e", " ", "i", "t", "e", "m", " ",
       "0", ":", " ", "e", "x", "p", "e", "c", "t", "e", "d", " ", "s", "t",
       "r", " ", "i", "n", "s", "t", "a", "n", "c", "e", ",", " ", "i", "n",
       "t", " ", "f", "o", "u", "n", "d">>
Whitespace == {" ", "\n", "\t"}

\* {"error": message}
ErrorResult(message) == Return(PyDict(<< <<StrError, PyStr(message)>> >>))

\* "\n\n".join(texts)
RECURSIVE Join(_)
Join(texts) ==
    IF texts = <<>> THEN <<>>
    ELSE IF Len(texts) = 1 THEN Head(texts).v
    ELSE Head(texts).v \o <<"\n", "\n">> \o Join(Tail(texts))

\* "\n\n".join(doc.text for doc in documents if doc.text): the pages are
\* given by their text; a text that is no string makes join raise TypeError
DocumentText(pages) ==
    LET texts == SelectSeq(pages.v, LAMBDA text : Truthy(text)) IN
    IF \E i \in 1..Len(texts) : texts[i].tag # "str"
    THEN Raise("TypeError")
    ELSE Return(PyStr(Join(texts)))

\* lines 264-267: the text of a list of pages, or str() of anything else
ExtractionText(parsed_documents) ==
    IF IsInstanceList(parsed_documents) THEN DocumentText(parsed_documents)
    ELSE Return(PyStr(Format(parsed_documents)))

\* not document_text.strip()
StripIsEmpty(text) == \A i \in 1..Len(text.v) : text.v[i] \in Whitespace

\* classify_document after the parser has answered: parsed is the parser's
\* outcome, answer the classifier's (a (doc_type, confidence) pair or an exception)
classify_document(registry, parsed, answer) ==
    LET failed == Return(PyTuple(<<StrUnknown, PyFloat(0), PyNone>>)) IN
    IF parsed.kind = "raise" THEN failed
    ELSE IF ~Truthy(parsed.val) THEN failed
    ELSE LET document_text == DocumentText(parsed.val) IN
         IF document_text.kind = "raise" THEN failed
         ELSE IF ~Truthy(document_text.val) THEN failed
         ELSE IF answer.kind = "raise" THEN failed
         ELSE Return(PyTuple(<<answer.val.v[1], answer.val.v[2], parsed.val>>))

\* an extract_data that hands the text to the extractor without a contract
extract_data_unchecked(registry, parsed_documents, doc_type, extracted) ==
    LET document_text == ExtractionText(parsed_documents) IN
    IF document_text.kind = "raise"
    THEN ErrorResult(MsgErrorDuringExtraction \o MsgJoinTypeError)
    ELSE IF StripIsEmpty(document_text.val) THEN ErrorResult(MsgEmptyContent)
    ELSE IF ~Truthy(extracted) THEN ErrorResult(MsgFailedToExtract)
    ELSE Return(extracted)

\* extract_data, lines 254-286; extracted is what self.extractor.extract_data
\* returns for the text and the contract (it returns {} on every failure)
extract_data(registry, parsed_documents, doc_type, extracted) ==
    LET contract == get_document_contract(registry, doc_type).val IN
    IF ~Truthy(contract) THEN ErrorResult(MsgUnknownDocument)
    ELSE LET document_text == ExtractionText(parsed_documents) IN
         IF document_text.kind = "raise"
         THEN ErrorResult(MsgErrorDuringExtraction \o MsgJoinTypeError)
         ELSE IF StripIsEmpty(document_text.val) THEN ErrorResult(MsgEmptyContent)
         ELSE IF ~Truthy(extracted) THEN ErrorResult(MsgFailedToExtract)
         ELSE Return(extracted)

----------------------------------------------------------------------------
(* upload_contract (POST /contracts/upload) *)

\* raise HTTPException(status_code=...)
HTTPException(status_code) == [kind |-> "raise", val |-> [tag |-> "http", v |-> status_code]]

\* isinstance(contract.fields, dict) and 'properties' in contract.fields
FieldsFormatOk(fields) == IsInstanceDict(fields) /\ DictHas(fields, StrProperties)

\* a structure check that asks validate_contract
FieldsValid(fields) ==
    validate_contract(fields, PyNone) = Verdict(TRUE, <<>>)

\* the checks that precede the insert: user is "missing", "email", "uuid" or
\* "malformed"; user_service tells whether get_or_create_user succeeds
UploadRejection(user, user_service, fields) ==
    IF user = "missing" THEN HTTPException(400)
    ELSE IF user = "email" /\ user_service = "raise" THEN HTTPException(500)
    ELSE IF user = "malformed" THEN HTTPException(400)
    ELSE IF ~FieldsFormatOk(fields) THEN HTTPException(400)
    ELSE NoResult

\* the row handed to insert: 'document_type': contract.document_type.lower()
UploadRow(doc_type, fields) == Row(PyStr(Lower(doc_type.v)), fields)

----------------------------------------------------------------------------
(* The manager and the user_contracts table: each operation is one step
   (the operations hold no await between their uses of the registry) *)

ZeroPropertiesSchema ==
    PyDict(<< <<StrType, StrObject>>, <<StrProperties, EmptyDict>> >>)

\* the table when the manager is constructed: rows written by copy_template
\* (a copy of the template's fields, whatever their shape) and by uploads
TablesAtConstruction ==
    {<<>>}
    \cup {<<Row(StrAB, fields)>> :
            fields \in {ObjectSchema, EmptyDict, PyList(<<>>), ZeroPropertiesSchema}}
    \cup {<<Row(StrUnderAB, ListSchema)>>, <<Row(StrUpperAB, ObjectSchema)>>}

\* contract.fields of an upload request: a JSON object (Dict[str, Any])
UploadPayloads ==
    { ObjectSchema,
      EmptyDict,
      PyDict(<< <<StrType, StrObject>> >>),
      PyDict(<< <<StrProperties, PyNone>> >>),
      PyDict(<< <<StrProperties,
                  PyDict(<< <<StrAmount, PyDict(<< <<StrDescription, StrWhen>> >>)>> >>)>> >>) }

UploadUsers == {"missing", "email", "uuid", "malformed"}
ServiceOutcomes == {"ok", "raise"}
InsertOutcomes == {"inserted", "no data", "raise"}

ManagerDocumentTypes == {StrAB, StrUpperAB, StrZZ, PyNone}
ManagerPayloads == {PyNone, ObjectSchema, ListSchema}
ManagerLists == {PyList(<<>>), ListSchema}

\* what the parser returns: the texts of the pages, or an exception
ParserOutcomes ==
    {Raise("Exception"), Return(PyList(<<>>)), Return(PyList(<<EmptyStr>>)),
     Return(PyList(<<StrAmount>>))}

\* what the classifier answers for the given classifications
ClassifierOutcomes(classifications) ==
    {Raise("Exception")}
    \cup {Return(PyTuple(<<doc_type, PyFloat(9)>>)) :
            doc_type \in {classifications[i] : i \in 1..Len(classifications)}
                         \cup {StrUnknown}}

\* parsed_documents of extract_data: pages, or the None a failed classification left
ParsedDocuments == {PyList(<<>>), PyList(<<StrAmount>>), PyList(<<PyInt(7)>>), PyNone}

\* what self.extractor.extract_data returns
ExtractorOutcomes == {EmptyDict, PyDict(<< <<StrAmount, StrNumber>> >>)}

Called(op) == [op |-> op]

InitManager ==
    /\ pc = "manager"
    /\ document_type = PyNone
    /\ other_type = EmptyStr
    /\ contract_list = PyNone
    /\ contract_data = PyNone
    /\ result = NoResult
    /\ store \in TablesAtConstruction
    /\ \E response \in QueryOutcomes(store) : user_contracts = get_user_contracts(response)
    /\ store_reads = 1
    /\ loader = LoaderIdle
    /\ reader = ReaderIdle
    /\ call = Called("__init__")
    /\ ServicesUnused

\* a lookup that keeps the converted schema in the registry
CallGetDocumentContractCaching ==
    \E d \in ManagerDocumentTypes :
        /\ call' = Called("get_document_contract")
        /\ document_type' = d
        /\ contract_data' = PyNone
        /\ contract_list' = PyNone
        /\ result' = get_document_contract(user_contracts, d)
        /\ user_contracts' = IF Hashable(d) /\ DictHas(user_contracts, d)
                             THEN DictSet(user_contracts, d, result'.val)
                             ELSE user_contracts
        /\ UNCHANGED <<pc, other_type, store, store_reads, loader, reader, serviceVars>>

\* load_contracts, lines 126-143
LoadContracts ==
    /\ store_reads <= MaxLoads
    /\ \E response \in QueryOutcomes(store) :
          /\ user_contracts' = get_user_contracts(response)
          /\ result' = Return(get_user_contracts(response))
          /\ call' = [op |-> "load_contracts", failed |-> response.failed]
    /\ store_reads' = store_reads + 1
    /\ document_type' = PyNone
    /\ contract_data' = PyNone
    /\ contract_list' = PyNone
    /\ UNCHANGED <<pc, other_type, store, loader, reader, serviceVars>>

\* get_document_contract, lines 288-338
CallGetDocumentContract ==
    \E d \in ManagerDocumentTypes :
        /\ call' = Called("get_document_contract")
        /\ document_type' = d
        /\ contract_data' = PyNone
        /\ contract_list' = PyNone
        /\ result' = get_document_contract(user_contracts, d)
        /\ UNCHANGED <<pc, other_type, user_contracts, store, store_reads, loader, reader, serviceVars>>

\* validate_contract, lines 340-387
CallValidateContract ==
    \E data \in ManagerPayloads, hint \in {PyNone, StrAB} :
        /\ call' = Called("validate_contract")
        /\ document_type' = hint
        /\ contract_data' = data
        /\ contract_list' = PyNone
        /\ result' = validate_contract(data, hint)
        /\ UNCHANGED <<pc, other_type, user_contracts, store, store_reads, loader, reader, serviceVars>>

\* _convert_contract_list_to_dict, lines 389-416
CallConvertContractList ==
    \E list \in ManagerLists :
        /\ call' = Called("_convert_contract_list_to_dict")
        /\ document_type' = StrAB
        /\ contract_data' = PyNone
        /\ contract_list' = list
        /\ result' = convert_contract_list_to_dict(list, StrAB)
        /\ UNCHANGED <<pc, other_type, user_contracts, store, store_reads, loader, reader, serviceVars>>

\* classify_document, lines 145-200
ClassifyDocument ==
    \E parsed \in ParserOutcomes, answer \in ClassifierOutcomes(DictKeys(user_contracts)) :
        /\ call' = Called("classify_document")
        /\ document_type' = PyNone
        /\ contract_data' = PyNone
        /\ contract_list' = PyNone
        /\ result' = classify_document(user_contracts, parsed, answer)
        /\ UNCHANGED <<pc, other_type, user_contracts, store, store_reads, loader, reader, serviceVars>>

\* extract_data, lines 243-286
ExtractData ==
    \E d \in ManagerDocumentTypes, parsed_documents \in ParsedDocuments,
       extracted \in ExtractorOutcomes :
        /\ call' = Called("extract_data")
        /\ document_type' = d
        /\ contract_data' = PyNone
        /\ contract_list' = PyNone
        /\ result' = extract_data(user_contracts, parsed_documents, d, extracted)
        /\ UNCHANGED <<pc, other_type, user_contracts, store, store_reads, loader, reader, serviceVars>>

\* upload_contract, contract_templates.py lines 303-373
UploadContract ==
    \E user \in UploadUsers, user_service \in ServiceOutcomes,
       fields \in UploadPayloads, inserted \in InsertOutcomes :
        /\ call' = Called("upload_contract")
        /\ document_type' = StrUpperAB
        /\ contract_data' = fields
        /\ contract_list' = PyNone
        /\ LET rejection == UploadRejection(user, user_service, fields) IN
           IF rejection # NoResult
           THEN result' = rejection /\ store' = store
           ELSE IF inserted = "inserted"
                THEN /\ Len(store) < MaxRows
                     /\ store' = Append(store, UploadRow(StrUpperAB, fields))
                     /\ result' = Return(UploadRow(StrUpperAB, fields))
                ELSE result' = HTTPException(500) /\ store' = store
        /\ UNCHANGED <<pc, other_type, user_contracts, store_reads, loader, reader, serviceVars>>

NextManager ==
    \/ LoadContracts
    \/ CallGetDocumentContract
    \/ CallValidateContract
    \/ CallConvertContractList
    \/ ClassifyDocument
    \/ ExtractData
    \/ UploadContract

SpecManager == InitManager /\ [][NextManager]_vars

----------------------------------------------------------------------------
(* Claims about the manager and the table *)

ReadOnlyOperations ==
    {"get_document_contract", "validate_contract", "_convert_contract_list_to_dict",
     "classify_document", "extract_data"}

\* C18: a step of get_document_contract, validate_contract,
\* _convert_contract_list_to_dict, classify_document or extract_data leaves the
\* registry as it is and reads nothing from the table; the registry and the
\* count of table reads change only in a step of load_contracts
C18_RegistryWrittenOnlyByLoad ==
    [][/\ call'.op \in ReadOnlyOperations
          => user_contracts' = user_contracts /\ store_reads' = store_reads
       /\ (user_contracts' # user_contracts \/ store_reads' # store_reads)
          => call'.op = "load_contracts"]_vars

\* a lookup has returned the converted form of a list-shaped entry and the
\* registry still holds the list
C18_Witness ==
    /\ call.op = "get_document_contract"
    /\ document_type = StrAB
    /\ result.val.tag = "dict"
    /\ \E i \in 1..Len(user_contracts.v) :
          user_contracts.v[i][1] = StrAB /\ user_contracts.v[i][2].tag = "list"
    /\ store_reads = 1

\* C19: every row that is added to the table holds fields that
\* validate_contract accepts
C19_OnlyValidContractsInserted ==
    [][Len(store') > Len(store)
         => validate_contract(RowFields(store'[Len(store')]), PyNone).val.v[1].v = TRUE]_vars

\* C20: for a document type that is a key of the registry, get_document_contract
\* does not return the empty mapping of "not found" and extract_data does not
\* answer with the unknown-document error
C20_PresentContractFound ==
    (/\ call.op \in {"get_document_contract", "extract_data"}
     /\ \E i \in 1..Len(user_contracts.v) : user_contracts.v[i][1] = document_type)
        => /\ call.op = "get_document_contract" => result.val # EmptyDict
           /\ call.op = "extract_data"
                => result # Return(PyDict(<< <<StrError, PyStr(MsgUnknownDocument)>> >>))

----------------------------------------------------------------------------
(* Claims about the registry a load builds *)

\* the first row of the table that holds this document type
FirstRowOf(rows, doc_type) ==
    rows[CHOOSE i \in 1..Len(rows) :
            /\ RowType(rows[i]) = doc_type
            /\ \A j \in 1..(i - 1) : RowType(rows[j]) # doc_type]

\* C22: a load that delivers rows maps every document type to the fields of
\* the first row of that type
C22_FirstDuplicateRowWins ==
    [][(call'.op = "load_contracts" /\ ~call'.failed)
         => \A j \in 1..Len(user_contracts'.v) :
               user_contracts'.v[j][2]
                   = RowFields(FirstRowOf(store, user_contracts'.v[j][1]))]_vars

\* a mapping with a properties mapping whose descriptors all hold a type and
\* whose required names are all keys of properties
CanonicalSchema(schema) ==
    /\ schema.tag = "dict"
    /\ \E p \in 1..Len(schema.v) :
          /\ schema.v[p][1] = StrProperties
          /\ schema.v[p][2].tag = "dict"
          /\ \A i \in 1..Len(schema.v[p][2].v) :
                /\ schema.v[p][2].v[i][2].tag = "dict"
                /\ \E t \in 1..Len(schema.v[p][2].v[i][2].v) :
                      schema.v[p][2].v[i][2].v[t][1] = StrType
          /\ \A r \in 1..Len(schema.v) :
                schema.v[r][1] = StrRequired
                    => /\ schema.v[r][2].tag = "list"
                       /\ \A n \in 1..Len(schema.v[r][2].v) :
                             \E i \in 1..Len(schema.v[p][2].v) :
                                 schema.v[p][2].v[i][1] = schema.v[r][2].v[n]

\* C23: every non-empty result of get_document_contract is a canonical schema
C23_FoundResultCanonical ==
    (call.op = "get_document_contract" /\ result.val # EmptyDict)
        => CanonicalSchema(result.val)

\* C25: a load whose query fails leaves the registry as it was and returns {}
C25_FailedReloadKeepsRegistry ==
    [][(call'.op = "load_contracts" /\ call'.failed)
         => user_contracts' = user_contracts /\ result' = Return(EmptyDict)]_vars

----------------------------------------------------------------------------
(* DocumentProcessor.process_document, DatabaseManager.save_extracted_data
   and DocumentProcessor.get_extracted_data *)

StrFilename == PyStr(<<"f", "i", "l", "e", "n", "a", "m", "e">>)
StrConfidence == PyStr(<<"c", "o", "n", "f", "i", "d", "e", "n", "c", "e">>)
StrDocumentId == PyStr(<<"d", "o", "c", "u", "m", "e", "n", "t", "_", "i", "d">>)
StrExtractedData == PyStr(<<"e", "x", "t", "r", "a", "c", "t", "e", "d", "_", "d", "a", "t", "a">>)
StrFileUrl == PyStr(<<"f", "i", "l", "e", "_", "u", "r", "l">>)
StrUnknownTitle == PyStr(<<"U", "n", "k", "n", "o", "w", "n">>)
MsgCouldNotClassify ==
    PyStr(<<"C", "o", "u", "l", "d", " ", "n", "o", "t", " ", "c", "l", "a", "s",
       "s", "i", "f", "y", " ", "d", "o", "c", "u", "m", "e", "n", "t">>)
MsgFailedToParse ==
    PyStr(<<"F", "a", "i", "l", "e", "d", " ", "t", "o", " ", "p", "a", "r", "s",
       "e", " ", "d", "o", "c", "u", "m", "e", "n", "t">>)
UploadedName == PyStr(<<"s", "c", "a", "n", ".", "p", "d", "f">>)
TempPath == PyStr(<<"/", "t", "m", "p", "/", "t", "m", "p", "a", "b", ".", "p", "d", "f">>)

\* lines 153-155: except Exception as e: raise HTTPException(status_code=500, ...);
\* HTTPException is an Exception, so the 400 of line 64 is caught here too
OuterExcept(exception) == HTTPException(500)

\* the mapping returned on a path that ends in an error (lines 76-82, 87-93, 100-106)
ErrorPayload(doc_type, confidence, message, document_id) ==
    Return(PyDict(<< <<StrFilename, UploadedName>>,
                     <<PyStr(StrDocumentType), doc_type>>,
                     <<StrConfidence, confidence>>,
                     <<StrError, message>>,
                     <<StrDocumentId, PyInt(document_id)>> >>))

\* {**extracted_result, "document_id": ..., ..., "confidence": confidence} (lines 112-119)
ExtractedData(extracted_result, doc_type, confidence, document_id) ==
    DictSet(DictSet(DictSet(DictSet(DictSet(extracted_result,
        StrDocumentId, PyInt(document_id)),
        StrFilename, UploadedName),
        StrFileUrl, TempPath),
        PyStr(StrDocumentType), doc_type),
        StrConfidence, confidence)

\* the mapping returned at lines 138-144
SuccessPayload(extracted_data, doc_type, confidence, document_id) ==
    Return(PyDict(<< <<StrFilename, UploadedName>>,
                     <<PyStr(StrDocumentType), doc_type>>,
                     <<StrConfidence, confidence>>,
                     <<StrExtractedData, extracted_data>>,
                     <<StrDocumentId, PyInt(document_id)>> >>))

\* whether extract_data reaches self.extractor.extract_data (line 273)
ExtractorCalled(registry, parsed_documents, doc_type) ==
    /\ Truthy(get_document_contract(registry, doc_type).val)
    /\ ExtractionText(parsed_documents).kind = "return"
    /\ ~StripIsEmpty(ExtractionText(parsed_documents).val)

\* a row of the documents table
DocumentRow(document_id, status, extracted_data, confidence) ==
    [id |-> document_id, status |-> status, extracted_data |-> extracted_data,
     confidence |-> confidence, error |-> PyNone]

\* the positions of the rows with this id
RowsWithId(rows, document_id) == {i \in 1..Len(rows) : rows[i].id = document_id}

\* save_extracted_data, database_manager.py lines 321-411: the table after the
\* call; the store answers "saved", "no row" (empty response.data) or "error"
\* (the insert or update raises, the row is then marked failed if it exists)
save_extracted_data(rows, document_id, extracted_data, answer) ==
    IF answer = "saved"
    THEN IF RowsWithId(rows, document_id) = {}
         THEN Append(rows, DocumentRow(document_id, "processed", extracted_data,
                                       DictGetDefault(extracted_data, StrConfidence,
                                                      PyFloat(0))))
         ELSE [i \in 1..Len(rows) |->
                 IF rows[i].id = document_id
                 THEN [rows[i] EXCEPT !.extracted_data = extracted_data,
                                      !.status = "processed"]
                 ELSE rows[i]]
    ELSE IF answer = "error"
    THEN [i \in 1..Len(rows) |->
             IF rows[i].id = document_id THEN [rows[i] EXCEPT !.status = "failed"]
             ELSE rows[i]]
    ELSE rows

\* a status test that lets only completed documents through
RetrievableWhenCompleted(status) == status = "completed"

\* document.status in ["completed", "processed"] (line 251)
Retrievable(status) == status \in {"completed", "processed"}

\* get_extracted_data, lines 208-270; _processing_documents is never written,
\* so the document comes from the table; a failed read gives None like no row
get_extracted_data(rows, document_id, read) ==
    IF read = "error" \/ RowsWithId(rows, document_id) = {}
    THEN HTTPException(404)
    ELSE LET document == rows[CHOOSE i \in RowsWithId(rows, document_id) :
                                  \A j \in RowsWithId(rows, document_id) : i <= j] IN
         IF ~Retrievable(document.status) THEN HTTPException(400)
         ELSE Return(PyDict(<< <<StrDocumentId, PyInt(document.id)>>,
                               <<StrExtractedData, document.extracted_data>>,
                               <<StrConfidence, document.confidence>>,
                               <<StrError, document.error>> >>))

MaxDocuments == 2

\* status values of rows written by save_document and save_extracted_data, and
\* one the code does not know
StoredStatuses == {"pending", "failed", "completed", "processed", "archived"}

\* the documents table when the service starts
DocumentsAtStart ==
    {<<>>} \cup {<<DocumentRow(1, status, PyDict(<< <<StrAmount, StrNumber>> >>),
                               PyFloat(9))>> : status \in StoredStatuses}

\* the registry the processor's contract_manager holds
ProcessRegistries ==
    {EmptyDict, PyDict(<< <<StrAB, ObjectSchema>> >>), PyDict(<< <<StrAB, EmptyDict>> >>)}

\* file.read(): it raises, returns b"" or returns bytes
ReadOutcomes == {"raise", "empty", "data"}

\* NamedTemporaryFile(...) raises, temp_file.write raises, or the file is written
TempFileOutcomes == {"not created", "write failed", "written"}

\* what the store answers to the insert or update of save_extracted_data
SaveOutcomes == {"saved", "no row", "error"}

\* os.unlink(temp_path) succeeds or raises
UnlinkOutcomes == {"ok", "failed"}

InitProcess ==
    /\ pc = "process"
    /\ document_type = PyNone
    /\ other_type = EmptyStr
    /\ contract_list = PyNone
    /\ contract_data = PyNone
    /\ result = NoResult
    /\ user_contracts \in ProcessRegistries
    /\ store = <<>>
    /\ store_reads = 0
    /\ loader = LoaderIdle
    /\ reader = ReaderIdle
    /\ call = NoCall
    /\ documents \in DocumentsAtStart
    /\ temp_file = "absent"
    /\ process = ProcessIdle
    /\ calls = {}
    /\ users = <<>>
    /\ organizations = <<>>

processFrame ==
    <<pc, document_type, other_type, contract_list, contract_data, user_contracts,
      store, store_reads, loader, reader, users, organizations>>

\* lines 60-64: content = await file.read(); if not content: raise HTTPException(400)
ProcessRead ==
    /\ process.pc \in {"idle", "done"}
    /\ Len(documents) < MaxDocuments
    /\ \E content \in ReadOutcomes :
          process' = IF content = "raise"
                     THEN [ProcessIdle EXCEPT !.pc = "done", !.content = content,
                                              !.outcome = OuterExcept(Raise("Exception"))]
                     ELSE IF content = "empty"
                     THEN [ProcessIdle EXCEPT !.pc = "done", !.content = content,
                                              !.outcome = OuterExcept(HTTPException(400))]
                     ELSE [ProcessIdle EXCEPT !.pc = "create", !.content = content]
    /\ calls' = {}
    /\ temp_file' = "absent"
    /\ call' = Called("process_document")
    /\ UNCHANGED <<processFrame, documents, result>>

\* lines 66-69: the with block that creates and writes the temporary file
ProcessCreateTemp ==
    /\ process.pc = "create"
    /\ \E created \in TempFileOutcomes :
          /\ temp_file' = IF created = "not created" THEN "absent" ELSE "present"
          /\ process' = IF created = "written"
                        THEN [process EXCEPT !.pc = "classify"]
                        ELSE [process EXCEPT !.pc = "done",
                                             !.outcome = OuterExcept(Raise("OSError"))]
    /\ UNCHANGED <<processFrame, documents, result, calls, call>>

\* lines 72-93: classify_document and the two early returns
ProcessClassify ==
    /\ process.pc = "classify"
    /\ \E parsed \in ParserOutcomes,
          answer \in ClassifierOutcomes(DictKeys(user_contracts) \o <<StrZZ>>) :
          LET classified == classify_document(user_contracts, parsed, answer).val.v
              id == Len(documents) + 1 IN
          process' =
              IF classified[1] = StrUnknown
              THEN [process EXCEPT !.pc = "finally", !.document_id = id,
                        !.outcome = ErrorPayload(StrUnknownTitle, PyFloat(0),
                                                 MsgCouldNotClassify, id)]
              ELSE IF classified[3] = PyNone
              THEN [process EXCEPT !.pc = "finally", !.document_id = id,
                        !.outcome = ErrorPayload(classified[1], PyFloat(0),
                                                 MsgFailedToParse, id)]
              ELSE [process EXCEPT !.pc = "extract", !.document_type = classified[1],
                        !.confidence = classified[2], !.parsed = classified[3]]
    /\ calls' = calls \cup {"classify_document"}
    /\ UNCHANGED <<processFrame, documents, result, temp_file, call>>

\* lines 95-119: extract_data, the early return on an error entry, the document id
ProcessExtract ==
    /\ process.pc = "extract"
    /\ \E extracted \in ExtractorOutcomes :
          LET extracted_result ==
                  extract_data(user_contracts, process.parsed, process.document_type,
                               extracted).val
              id == Len(documents) + 1 IN
          process' =
              IF DictHas(extracted_result, StrError)
              THEN [process EXCEPT !.pc = "finally", !.document_id = id,
                        !.outcome = ErrorPayload(process.document_type,
                                                 process.confidence,
                                                 DictGet(extracted_result, StrError), id)]
              ELSE [process EXCEPT !.pc = "save", !.document_id = id,
                        !.extracted = ExtractedData(extracted_result,
                                                    process.document_type,
                                                    process.confidence, id)]
    /\ calls' = calls \cup {"extract_data"}
                      \cup IF ExtractorCalled(user_contracts, process.parsed,
                                              process.document_type)
                           THEN {"extractor"} ELSE {}
    /\ UNCHANGED <<processFrame, documents, result, temp_file, call>>

\* lines 121-145: save_extracted_data never raises and its result is not read
ProcessSave ==
    /\ process.pc = "save"
    /\ \E answer \in SaveOutcomes :
          /\ documents' = save_extracted_data(documents, process.document_id,
                                              process.extracted, answer)
          /\ process' = [process EXCEPT !.pc = "finally", !.saved = answer,
                            !.outcome = SuccessPayload(process.extracted,
                                                       process.document_type,
                                                       process.confidence,
                                                       process.document_id)]
    /\ calls' = calls \cup {"save_extracted_data"}
    /\ UNCHANGED <<processFrame, result, temp_file, call>>

\* lines 147-151: finally: os.unlink(temp_path), a failure is logged only
ProcessCleanup ==
    /\ process.pc = "finally"
    /\ \E unlinked \in UnlinkOutcomes :
          /\ temp_file' = IF unlinked = "ok" THEN "deleted" ELSE temp_file
          /\ process' = [process EXCEPT !.pc = "done", !.unlink = unlinked]
    /\ UNCHANGED <<processFrame, documents, result, calls, call>>

\* get_extracted_data for one of the ids in use
GetExtractedData ==
    /\ \E document_id \in 1..MaxDocuments, read \in {"ok", "error"} :
          /\ result' = get_extracted_data(documents, document_id, read)
          /\ call' = [op |-> "get_extracted_data", document_id |-> document_id,
                      read |-> read]
    /\ UNCHANGED <<processFrame, documents, temp_file, process, calls>>

NextProcess ==
    \/ ProcessRead
    \/ ProcessCreateTemp
    \/ ProcessClassify
    \/ ProcessExtract
    \/ ProcessSave
    \/ ProcessCleanup
    \/ GetExtractedData

SpecProcess == InitProcess /\ [][NextProcess]_vars

----------------------------------------------------------------------------
(* Claims about process_document and get_extracted_data *)

\* the classified type of the running request resolves to no contract
NoContractResolved == ~Truthy(get_document_contract(user_contracts, process.document_type).val)

\* the value process_document is about to return, or has returned
Outcome == process.outcome

\* C21: when the classified document type resolves to no contract, the
\* extraction step does not call the extractor and ends the request with a
\* returned mapping that carries the "unknown document type" error and a
\* document_id; nothing is saved, and from there to the return the documents
\* table and the returned mapping stay as they are.
C21_NoContractGivesErrorPayload ==
    /\ [][(process.pc = "extract" /\ process'.pc # "extract" /\ NoContractResolved)
             => /\ process'.pc = "finally"
                /\ "extractor" \notin calls'
                /\ "save_extracted_data" \notin calls'
                /\ process'.outcome.kind = "return"
                /\ DictHas(process'.outcome.val, StrError)
                /\ DictGet(process'.outcome.val, StrError) = PyStr(MsgUnknownDocument)
                /\ DictHas(process'.outcome.val, StrDocumentId)
                /\ documents' = documents]_vars
    /\ [][process.pc = "finally"
             => /\ documents' = documents
                /\ process'.outcome = process.outcome
                /\ process'.pc \in {"finally", "done"}]_vars

C21_Witness ==
    /\ process.pc = "done"
    /\ process.document_type = StrZZ
    /\ "extract_data" \in calls
    /\ "extractor" \notin calls
    /\ Outcome.kind = "return"
    /\ DictGetDefault(Outcome.val, StrError, PyNone) = PyStr(MsgUnknownDocument)

\* C26: a request whose file content is empty ends with an HTTP error of
\* status 400, with no temporary file created and neither the classifier nor
\* the store called.
C26_EmptyFileIsBadRequest ==
    (process.pc = "done" /\ process.content = "empty")
        => /\ Outcome = HTTPException(400)
           /\ temp_file = "absent"
           /\ calls = {}

\* C27: a returned result has an extracted_data entry and no error entry only
\* if the documents table holds the row of its document_id, and a request whose
\* save failed (the store call raised or returned no row) returns a result
\* with an error entry.
C27_SuccessOnlyWhenSaved ==
    (process.pc = "done" /\ Outcome.kind = "return")
        => /\ (DictHas(Outcome.val, StrExtractedData) /\ ~DictHas(Outcome.val, StrError))
                 => RowsWithId(documents, process.document_id) # {}
           /\ process.saved \in {"no row", "error"} => DictHas(Outcome.val, StrError)

\* C28: whenever a request that created the temporary file has returned or
\* raised, the deletion of the file was attempted, the file is gone unless
\* that deletion failed, and the deletion step left the outcome as it was.
C28_TempFileAlwaysCleaned ==
    /\ [](process.pc = "done" /\ temp_file # "absent"
             => /\ process.unlink # "untried"
                /\ process.unlink = "ok" => temp_file = "deleted")
    /\ [][process.pc = "finally" /\ process'.pc = "done"
             => process'.outcome = process.outcome]_vars

\* the stored row get_extracted_data reads for the id of the latest call
RequestedRow == documents[CHOOSE i \in RowsWithId(documents, call.document_id) : TRUE]

----------------------------------------------------------------------------
(* DatabaseManager.handle_user_organization *)

MaxUsers == 2
MaxOrganizations == 2

LocalParts == <<"a", "b", "c", "d">>

\* the emails and organization names the callers send
Email(i) == PyStr(<<LocalParts[i], "@", "x">>)
Emails == {Email(i) : i \in 1..MaxUsers}
OrganizationName(i) == PyStr(<<"o", LocalParts[i]>>)
OrganizationNames ==
    {PyNone, EmptyStr} \cup {OrganizationName(i) : i \in 1..MaxOrganizations}

\* email.split('@')[0]
RECURSIVE BeforeAt(_)
BeforeAt(text) ==
    IF text = <<>> \/ Head(text) = "@" THEN <<>>
    ELSE <<Head(text)>> \o BeforeAt(Tail(text))

\* select('*').eq(column, value): the positions of the matching rows, in table order
Matching(rows, column, value) == {i \in 1..Len(rows) : rows[i][column] = value}
FirstMatching(rows, column, value) ==
    rows[CHOOSE i \in Matching(rows, column, value) :
            \A j \in Matching(rows, column, value) : i <= j]

\* lines 429-439: the organizations table after, and org_id
OrganizationStep(orgs, org_name) ==
    IF ~Truthy(org_name) THEN [organizations |-> orgs, org_id |-> PyNone]
    ELSE IF Matching(orgs, "name", org_name) = {}
    THEN [organizations |-> Append(orgs, [id |-> PyInt(Len(orgs) + 1),
                                          name |-> org_name]),
          org_id |-> PyInt(Len(orgs) + 1)]
    ELSE [organizations |-> orgs, org_id |-> FirstMatching(orgs, "name", org_name).id]

\* a user step that inserts a row without looking the email up
UserStepAlwaysInserting(rows, email, org_id) ==
    [users |-> Append(rows, [id |-> PyInt(Len(rows) + 1), email |-> email,
                             display_name |-> PyStr(BeforeAt(email.v)),
                             org_id |-> org_id]),
     user_id |-> PyInt(Len(rows) + 1)]

\* lines 441-458: the users table after, and user_id
UserStep(rows, email, org_id) ==
    IF Matching(rows, "email", email) = {}
    THEN [users |-> Append(rows, [id |-> PyInt(Len(rows) + 1), email |-> email,
                                  display_name |-> PyStr(BeforeAt(email.v)),
                                  org_id |-> org_id]),
          user_id |-> PyInt(Len(rows) + 1)]
    ELSE LET user == FirstMatching(rows, "email", email) IN
         IF Truthy(org_id) /\ user.org_id # org_id
         THEN [users |-> [i \in 1..Len(rows) |->
                             IF rows[i].id = user.id
                             THEN [rows[i] EXCEPT !.org_id = org_id] ELSE rows[i]],
               user_id |-> user.id]
         ELSE [users |-> rows, user_id |-> user.id]

InitUsers ==
    /\ pc = "users"
    /\ document_type = PyNone
    /\ other_type = EmptyStr
    /\ contract_list = PyNone
    /\ contract_data = PyNone
    /\ result = NoResult
    /\ user_contracts = EmptyDict
    /\ store = <<>>
    /\ store_reads = 0
    /\ loader = LoaderIdle
    /\ reader = ReaderIdle
    /\ call = NoCall
    /\ documents = <<>>
    /\ temp_file = "absent"
    /\ process = ProcessIdle
    /\ calls = {}
    /\ users = <<>>
    /\ organizations = <<>>

\* handle_user_organization, lines 413-467, run to completion with every store
\* call succeeding
HandleUserOrganization ==
    /\ Len(users) < MaxUsers + 1
    /\ Len(organizations) < MaxOrganizations + 1
    /\ \E email \in Emails, org_name \in OrganizationNames :
          LET org == OrganizationStep(organizations, org_name)
              user == UserStep(users, email, org.org_id) IN
          /\ organizations' = org.organizations
          /\ users' = user.users
          /\ result' = IF Truthy(user.user_id)
                       THEN Return(PyTuple(<<user.user_id, org.org_id>>))
                       ELSE Raise("ValueError")
          /\ call' = [op |-> "handle_user_organization", email |-> email,
                      org_name |-> org_name]
    /\ UNCHANGED <<pc, document_type, other_type, contract_list, contract_data,
                   user_contracts, store, store_reads, loader, reader, documents,
                   temp_file, process, calls>>

NextUsers == HandleUserOrganization

SpecUsers == InitUsers /\ [][NextUsers]_vars

----------------------------------------------------------------------------
(* Claim about handle_user_organization *)

\* no two rows of the table agree on the column
UniqueBy(rows, column) ==
    \A i, j \in 1..Len(rows) : rows[i][column] = rows[j][column] => i = j

\* C30: after any sequence of completed handle_user_organization calls the
\* users table has at most one row per email and the organizations table at
\* most one row per name; a call returns the id of the row that holds its
\* email, and rows keep their id and email for good, so calls with the same
\* email return the same user_id; a call leaves every other user's row as it
\* was and changes nothing but org_id in the row of its own user, setting it
\* to the organization of a non-empty org_name.
C30_GetOrCreateIdempotent ==
    /\ [](UniqueBy(users, "email") /\ UniqueBy(organizations, "name"))
    /\ [][call'.op = "handle_user_organization"
             => /\ result'.kind = "return"
                /\ \E i \in 1..Len(users') :
                      /\ users'[i].email = call'.email
                      /\ users'[i].id = result'.val.v[1]
                      /\ (call'.org_name \notin {PyNone, EmptyStr})
                            => \E k \in 1..Len(organizations') :
                                  /\ organizations'[k].name = call'.org_name
                                  /\ organizations'[k].id = users'[i].org_id
                                  /\ organizations'[k].id = result'.val.v[2]
                /\ Len(users') >= Len(users)
                /\ \A i \in 1..Len(users) :
                      /\ users'[i].id = users[i].id
                      /\ users'[i].email = users[i].email
                      /\ users'[i].display_name = users[i].display_name
                      /\ users[i].email # call'.email => users'[i] = users[i]
                      /\ call'.org_name \in {PyNone, EmptyStr} => users'[i] = users[i]
                /\ \A k \in 1..Len(organizations) :
                      organizations'[k] = organizations[k]]_vars

C30_Witness ==
    /\ call.op = "handle_user_organization"
    /\ call.email = Email(1)
    /\ call.org_name = OrganizationName(2)
    /\ Len(users) = 2
    /\ Len(organizations) = 2
    /\ users[1].email = Email(1)
    /\ users[1].org_id = PyInt(2)
    /\ users[2].org_id = PyInt(1)
    /\ result = Return(PyTuple(<<PyInt(1), PyInt(2)>>))

====
